---- MODULE Spec2Model ----
(***************************************************************************)
(* A model of the logging layer of syscall_intercept                       *)
(* (src/src/intercept_util.c): the log sink (log_fd and the kernel calls   *)
(* made on it), the text encoders, print_syscall and the dispatch chain of *)
(* intercept_log_syscall.                                                  *)
(*                                                                         *)
(* Text is modelled as TLA+ strings: a function that takes a "char *dst"   *)
(* and returns the advanced pointer takes the text written so far and      *)
(* returns the extended text.  A C long / unsigned long is a Word: four    *)
(* 16-bit limbs, most significant first, so that the 64-bit width is kept. *)
(***************************************************************************)
EXTENDS Integers, Sequences, FiniteSets, TLC

(***************************************************************************)
(* 64-bit words                                                            *)
(***************************************************************************)

\* one limb of a Word holds 16 bits
Limb == 2 ^ 16

\* the Word of a natural number below 2^31
W(n) == <<0, 0, n \div Limb, n % Limb>>

WIsZero(w) == w = <<0, 0, 0, 0>>

\* (long)w < 0: the sign bit of the 64-bit value
WIsNeg(w) == w[1] >= Limb \div 2

\* w + 1 modulo 2^64
WInc(w) ==
    IF w[4] < Limb - 1 THEN <<w[1], w[2], w[3], w[4] + 1>>
    ELSE IF w[3] < Limb - 1 THEN <<w[1], w[2], w[3] + 1, 0>>
    ELSE IF w[2] < Limb - 1 THEN <<w[1], w[2] + 1, 0, 0>>
    ELSE <<(w[1] + 1) % Limb, 0, 0, 0>>

\* -w modulo 2^64 (unsigned negation)
WNeg(w) == WInc([i \in 1..4 |-> Limb - 1 - w[i]])

\* the Word of a C long given as a small integer
SInt(n) == IF n >= 0 THEN W(n) ELSE WNeg(W(-n))

\* w / b and w % b for a small divisor b, by long division over the limbs
WDivMod(w, b) ==
    LET c1 == w[1]
        c2 == (c1 % b) * Limb + w[2]
        c3 == (c2 % b) * Limb + w[3]
        c4 == (c3 % b) * Limb + w[4]
    IN  [q |-> <<c1 \div b, c2 \div b, c3 \div b, c4 \div b>>, r |-> c4 % b]

\* (int)w: the low 32 bits, sign-extended back to a long
WToInt(w) ==
    IF w[3] >= Limb \div 2 THEN <<Limb - 1, Limb - 1, w[3], w[4]>>
    ELSE <<0, 0, w[3], w[4]>>

\* the set of bit positions (0 = least significant) set in w
WBits(w) == {i \in 0..63 : (w[4 - (i \div 16)] \div (2 ^ (i % 16))) % 2 = 1}

RECURSIVE SumPow2(_)
SumPow2(S) == IF S = {} THEN 0
              ELSE LET i == CHOOSE x \in S : TRUE IN 2 ^ i + SumPow2(S \ {i})

\* the Word whose set bits are the positions in B
BitsW(B) == [k \in 1..4 |->
               SumPow2({i - 16 * (4 - k) : i \in {j \in B : j \div 16 = 4 - k}})]

(***************************************************************************)
(* Primitive text encoders                                                 *)
(***************************************************************************)

print_cstr(dst, src) == dst \o src

digit_chars == "0123456789abcdef"

\* sizeof(digits) in print_number
DigitsSize == 32

\* One pass of the body of the do-while loop of print_number and the
\* evaluation of its condition: a digit is stored in front of those stored
\* before (from the end of the working buffer towards its start).  st.run
\* is FALSE once the loop is left.
print_number_pass(st, base) ==
    IF st.run
    THEN LET dm == WDivMod(st.n, base)
             w2 == IF st.width > 0 THEN st.width - 1 ELSE 0
         IN  [n |-> dm.q, width |-> w2,
              digits |-> SubSeq(digit_chars, dm.r + 1, dm.r + 1) \o st.digits,
              run |-> ~WIsZero(dm.q) \/ w2 > 0]
    ELSE st

\* k passes in a row
RECURSIVE print_number_passes(_, _, _)
print_number_passes(st, k, base) ==
    IF k = 0 THEN st
    ELSE print_number_passes(print_number_pass(st, base), k - 1, base)

\* the do-while loop of print_number, taken eight passes at a time
RECURSIVE print_number_loop(_, _)
print_number_loop(st, base) ==
    IF ~st.run THEN st.digits
    ELSE print_number_loop(print_number_passes(st, 8, base), base)

print_number(dst, n, base, width) ==
    LET w == IF width >= DigitsSize - 1 THEN DigitsSize - 2 ELSE width
    IN  dst \o print_number_loop([n |-> n, width |-> w, digits |-> "",
                                  run |-> TRUE], base)

print_pointer(c, pointer) ==
    IF WIsZero(pointer) THEN print_cstr(c, "(null)")
    ELSE print_number(c \o "0x", pointer, 16, 16)

print_signed_dec(dst, n) ==
    IF ~WIsNeg(n) THEN print_number(dst, n, 10, 1)
    ELSE print_number(dst \o "-", WNeg(n), 10, 1)

print_fd(dst, n) == print_signed_dec(dst, n)

\* AT_FDCWD of <fcntl.h>, as a positive magnitude: the value is -100
AT_FDCWD_MAGNITUDE == 100

print_atfd(dst, n) ==
    IF n = SInt(-AT_FDCWD_MAGNITUDE) THEN print_cstr(dst, "AT_FDCWD")
    ELSE print_fd(dst, n)

(***************************************************************************)
(* Flag sets.  A flag mask is handled as the set of its bit positions.     *)
(***************************************************************************)

print_flag(buffer_start, c, flag_name) ==
    IF Len(c) # buffer_start THEN print_cstr(print_cstr(c, " | "), flag_name)
    ELSE print_cstr(c, flag_name)

\* the while loop of print_flag_set over the table entries desc[i..]; the
\* result is the text and the flags left: an entry is printed when it shares
\* a bit with the remaining flags
RECURSIVE print_flag_set_loop(_, _, _, _, _)
print_flag_set_loop(buffer_start, c, flags, desc, i) ==
    IF flags = {} \/ i > Len(desc) THEN [c |-> c, flags |-> flags]
    ELSE IF (flags \cap desc[i].flag) # {}
         THEN print_flag_set_loop(buffer_start,
                                  print_flag(buffer_start, c, desc[i].printable_name),
                                  flags \ desc[i].flag, desc, i + 1)
         ELSE print_flag_set_loop(buffer_start, c, flags, desc, i + 1)

print_flag_set(buffer_start, c, flags, desc) ==
    LET l  == print_flag_set_loop(buffer_start, c, flags, desc, 1)
        c1 == IF l.flags # {}
              THEN print_number(
                       print_cstr(IF Len(l.c) # buffer_start
                                  THEN print_cstr(l.c, " | ") ELSE l.c, "0x"),
                       BitsW(l.flags), 16, 1)
              ELSE l.c
    IN  IF Len(c1) = buffer_start THEN print_cstr(c1, "0") ELSE c1

\* the access modes of <fcntl.h> (x86-64 Linux), as bit sets
O_RDONLY_BITS == {}
O_WRONLY_BITS == {0}
O_RDWR_BITS == {1}
O_CREAT_BITS == {6}

\* open_flags[]: the entries that exist on Linux (O_EXEC, O_SEARCH and
\* O_TTY_INIT are not defined there), without the terminating entry
open_flags == <<
    [flag |-> {10},     printable_name |-> "O_APPEND"],
    [flag |-> {19},     printable_name |-> "O_CLOEXEC"],
    [flag |-> {6},      printable_name |-> "O_CREAT"],
    [flag |-> {16},     printable_name |-> "O_DIRECTORY"],
    [flag |-> {12},     printable_name |-> "O_DSYNC"],
    [flag |-> {7},      printable_name |-> "O_EXCL"],
    [flag |-> {8},      printable_name |-> "O_NOCTTY"],
    [flag |-> {17},     printable_name |-> "O_NOFOLLOW"],
    [flag |-> {11},     printable_name |-> "O_NONBLOCK"],
    [flag |-> {12, 20}, printable_name |-> "O_RSYNC"],
    [flag |-> {12, 20}, printable_name |-> "O_SYNC"],
    [flag |-> {9},      printable_name |-> "O_TRUNC"] >>

\* flags is the set of bits of the int argument, sign-extended to a long
print_open_flags(buffer, flags) ==
    IF flags = {} THEN print_cstr(buffer, "O_RDONLY")
    ELSE
      LET start == Len(buffer)
          c1 == IF O_RDWR_BITS \subseteq flags
                THEN print_flag(start, buffer, "O_RDWR") ELSE buffer
          c2 == IF O_WRONLY_BITS \subseteq flags
                THEN print_flag(start, c1, "O_WRONLY") ELSE c1
          c3 == IF flags \cap (O_WRONLY_BITS \cup O_RDWR_BITS) = {}
                THEN print_flag(start, c2, "O_RDONLY") ELSE c2
      IN  print_flag_set(start, c3,
                         flags \ (O_RDONLY_BITS \cup O_WRONLY_BITS \cup O_RDWR_BITS),
                         open_flags)

\* the switch of fcntl_name over the command values of <fcntl.h>; the
\* F_ADD_SEALS block is left out: F_SEAL_SEAL has the value of F_GETFD, so the
\* switch only compiles where that block is not defined
fcntl_name(cmd) ==
    CASE cmd = W(0)    -> "F_DUPFD"
      [] cmd = W(1030) -> "F_DUPFD_CLOEXEC"
      [] cmd = W(1)    -> "F_GETFD"
      [] cmd = W(2)    -> "F_SETFD"
      [] cmd = W(3)    -> "F_GETFL"
      [] cmd = W(4)    -> "F_SETFL"
      [] cmd = W(6)    -> "F_SETLK"
      [] cmd = W(7)    -> "F_SETLKW"
      [] cmd = W(5)    -> "F_GETLK"
      [] cmd = W(37)   -> "F_OFD_SETLK"
      [] cmd = W(38)   -> "F_OFD_SETLKW"
      [] cmd = W(36)   -> "F_OFD_GETLK"
      [] cmd = W(9)    -> "F_GETOWN"
      [] cmd = W(8)    -> "F_SETOWN"
      [] cmd = W(16)   -> "F_GETOWN_EX"
      [] cmd = W(15)   -> "F_SETOWN_EX"
      [] cmd = W(11)   -> "F_GETSIG"
      [] cmd = W(10)   -> "F_SETSIG"
      [] cmd = W(1024) -> "F_SETLEASE"
      [] cmd = W(1025) -> "F_GETLEASE"
      [] cmd = W(1026) -> "F_NOTIFY"
      [] cmd = W(1031) -> "F_SETPIPE_SZ"
      [] cmd = W(1032) -> "F_GETPIPE_SZ"
      [] OTHER         -> "unknown"

\* sprintf(buffer, "%ld (%s)", cmd, fcntl_name(cmd))
print_fcntl_cmd(buffer, cmd) ==
    print_signed_dec(buffer, cmd) \o " (" \o fcntl_name(cmd) \o ")"

\* clone_flags[] with the values of <sched.h>, without the terminating entry
clone_flags == <<
    [flag |-> {21}, printable_name |-> "CLONE_CHILD_CLEARTID"],
    [flag |-> {24}, printable_name |-> "CLONE_CHILD_SETTID"],
    [flag |-> {10}, printable_name |-> "CLONE_FILES"],
    [flag |-> {9},  printable_name |-> "CLONE_FS"],
    [flag |-> {31}, printable_name |-> "CLONE_IO"],
    [flag |-> {25}, printable_name |-> "CLONE_NEWCGROUP"],
    [flag |-> {27}, printable_name |-> "CLONE_NEWIPC"],
    [flag |-> {30}, printable_name |-> "CLONE_NEWNET"],
    [flag |-> {17}, printable_name |-> "CLONE_NEWNS"],
    [flag |-> {29}, printable_name |-> "CLONE_NEWPID"],
    [flag |-> {28}, printable_name |-> "CLONE_NEWUSER"],
    [flag |-> {26}, printable_name |-> "CLONE_NEWUTS"],
    [flag |-> {15}, printable_name |-> "CLONE_PARENT"],
    [flag |-> {20}, printable_name |-> "CLONE_PARENT_SETTID"],
    [flag |-> {13}, printable_name |-> "CLONE_PTRACE"],
    [flag |-> {19}, printable_name |-> "CLONE_SETTLS"],
    [flag |-> {11}, printable_name |-> "CLONE_SIGHAND"],
    [flag |-> {18}, printable_name |-> "CLONE_SYSVSEM"],
    [flag |-> {16}, printable_name |-> "CLONE_THREAD"],
    [flag |-> {23}, printable_name |-> "CLONE_UNTRACED"],
    [flag |-> {14}, printable_name |-> "CLONE_VFORK"],
    [flag |-> {8},  printable_name |-> "CLONE_VM"] >>

(***************************************************************************)
(* Process memory, as the pointer arguments of a syscall see it            *)
(***************************************************************************)

\* the address of the string literal "???" that the getcwd branch passes
QQQ_ADDR == 28672

\* The objects of the traced process that pointer arguments refer to, each
\* given by its first bytes; the bytes after them are zero (the buffers of
\* the test program are zero-filled after their strings).
\*   4096   "abcde"
\*   8192   "/tmp/x"
\*   12288  binary data: '"' '\' newline tab 0x01 0xff 0x7f NUL 'A'
\*   16384  200 times 'x' (longer than an argument's share of the line)
\*   20480  the empty string
\*   24576  200 times the byte 0x01 (four characters each when escaped)
\*   32768  200 times newline (two characters each when escaped)
\*   36864  printable text with a quote and a backslash: a"\b
Mem(p) ==
    CASE p = W(4096)     -> <<97, 98, 99, 100, 101>>
      [] p = W(8192)     -> <<47, 116, 109, 112, 47, 120>>
      [] p = W(12288)    -> <<34, 92, 10, 9, 1, 255, 127, 0, 65>>
      [] p = W(16384)    -> [i \in 1..200 |-> 120]
      [] p = W(20480)    -> <<>>
      [] p = W(24576)    -> [i \in 1..200 |-> 1]
      [] p = W(32768)    -> [i \in 1..200 |-> 10]
      [] p = W(36864)    -> <<97, 34, 92, 98>>
      [] p = W(40960)    -> <<13, 7, 8, 12, 11, 128, 31>>
      [] p = W(QQQ_ADDR) -> <<63, 63, 63>>

\* src[i]
MemByte(p, i) == IF i < Len(Mem(p)) THEN Mem(p)[i + 1] ELSE 0

(***************************************************************************)
(* xprint_escape                                                           *)
(***************************************************************************)

\* the characters with codes 32..95 and 97..126, in order (the grave accent,
\* code 96, cannot be written in a string of the model; no object of Mem
\* holds it)
ascii_32_95 ==
    " !\"#$%&'()*+,-./0123456789:;<=>?@ABCDEFGHIJKLMNOPQRSTUVWXYZ[\\]^_"
ascii_97_126 ==
    "abcdefghijklmnopqrstuvwxyz{|}~"

\* isprint() in the C locale
isprint(c) == c >= 32 /\ c <= 126

\* the character of a printable byte
Chr(c) == IF c < 96 THEN SubSeq(ascii_32_95, c - 31, c - 31)
          ELSE SubSeq(ascii_97_126, c - 96, c - 96)

\* w - 1 modulo 2^64
WDec(w) == WNeg(WInc(WNeg(w)))

\* a faulty variant of escape_byte: every byte is written as \xHH
escape_byte_hex_only(dst, c) == print_number(dst \o "\\" \o "x", W(c), 16, 2)

\* a faulty variant of escape_byte: the digits after \x are of width 1
escape_byte_hex_width_1(dst, c) ==
    IF c = 34 THEN dst \o "\\" \o "\""
    ELSE IF c = 92 THEN dst \o "\\" \o "\\"
    ELSE IF isprint(c) THEN dst \o Chr(c)
    ELSE IF c = 10 THEN dst \o "\\" \o "n"
    ELSE IF c = 9 THEN dst \o "\\" \o "t"
    ELSE IF c = 13 THEN dst \o "\\" \o "r"
    ELSE IF c = 7 THEN dst \o "\\" \o "a"
    ELSE IF c = 8 THEN dst \o "\\" \o "b"
    ELSE IF c = 12 THEN dst \o "\\" \o "f"
    ELSE IF c = 11 THEN dst \o "\\" \o "v"
    ELSE IF c = 0 THEN dst \o "\\" \o "0"
    ELSE print_number(dst \o "\\" \o "x", W(c), 16, 1)

\* one pass of the body of the while loop of xprint_escape: what is written
\* for the byte c
escape_byte(dst, c) ==
    IF c = 34 THEN dst \o "\\" \o "\""
    ELSE IF c = 92 THEN dst \o "\\" \o "\\"
    ELSE IF isprint(c) THEN dst \o Chr(c)
    ELSE IF c = 10 THEN dst \o "\\" \o "n"
    ELSE IF c = 9 THEN dst \o "\\" \o "t"
    ELSE IF c = 13 THEN dst \o "\\" \o "r"
    ELSE IF c = 7 THEN dst \o "\\" \o "a"
    ELSE IF c = 8 THEN dst \o "\\" \o "b"
    ELSE IF c = 12 THEN dst \o "\\" \o "f"
    ELSE IF c = 11 THEN dst \o "\\" \o "v"
    ELSE IF c = 0 THEN dst \o "\\" \o "0"
    ELSE print_number(dst \o "\\" \o "x", W(c), 16, 2)

\* One evaluation of the condition of the while loop of xprint_escape and,
\* where it holds, one pass of the body.  st.i counts the source bytes
\* consumed; st.run is FALSE once the loop is left.
xprint_escape_step(st, dst_end, src, zero_term) ==
    IF st.run /\ Len(st.dst) < dst_end /\ (zero_term \/ ~WIsZero(st.src_size))
       /\ ~(zero_term /\ MemByte(src, st.i) = 0)
    THEN [dst |-> escape_byte(st.dst, MemByte(src, st.i)), i |-> st.i + 1,
          src_size |-> IF zero_term THEN st.src_size ELSE WDec(st.src_size),
          run |-> TRUE]
    ELSE [st EXCEPT !.run = FALSE]

\* n passes in a row
RECURSIVE xprint_escape_steps(_, _, _, _, _)
xprint_escape_steps(st, n, dst_end, src, zero_term) ==
    IF n = 0 THEN st
    ELSE xprint_escape_steps(xprint_escape_step(st, dst_end, src, zero_term),
                             n - 1, dst_end, src, zero_term)

\* the while loop of xprint_escape, taken sixteen passes at a time
RECURSIVE xprint_escape_loop(_, _, _, _)
xprint_escape_loop(st, dst_end, src, zero_term) ==
    IF ~st.run THEN st
    ELSE xprint_escape_loop(xprint_escape_steps(st, 16, dst_end, src, zero_term),
                            dst_end, src, zero_term)

\* a faulty variant of xprint_escape_end: the byte at src is not tested
xprint_escape_end_count_only(l, src, zero_term) ==
    IF ~WIsZero(l.src_size) /\ ~zero_term
    THEN print_cstr(l.dst, "...") \o "\""
    ELSE l.dst \o "\""

\* what xprint_escape does after the loop, l being the state the loop left:
\* the ellipsis where the source is not used up, and the closing quote
xprint_escape_end(l, src, zero_term) ==
    IF (~WIsZero(l.src_size) /\ ~zero_term) \/ (zero_term /\ MemByte(src, l.i) # 0)
    THEN print_cstr(l.dst, "...") \o "\""
    ELSE l.dst \o "\""

\* a faulty variant of xprint_escape: the opening quote is written before
\* the test of src, and the closing one after "(null)"
xprint_escape_null_quoted(dst, src, dst_size, zero_term, src_size) ==
    IF WIsZero(src) THEN print_cstr(dst \o "\"", "(null)") \o "\""
    ELSE xprint_escape_end(
             xprint_escape_loop([dst |-> dst \o "\"", i |-> 0,
                                 src_size |-> src_size, run |-> TRUE],
                                Len(dst) + dst_size - 5, src, zero_term),
             src, zero_term)

xprint_escape(dst, src, dst_size, zero_term, src_size) ==
    IF WIsZero(src) THEN print_cstr(dst, "(null)")
    ELSE xprint_escape_end(
             xprint_escape_loop([dst |-> dst \o "\"", i |-> 0,
                                 src_size |-> src_size, run |-> TRUE],
                                Len(dst) + dst_size - 5, src, zero_term),
             src, zero_term)

(***************************************************************************)
(* print_syscall                                                           *)
(***************************************************************************)

\* the formats of syscall arguments
F_DEC == 1
F_OCT_MODE == 2
F_HEX == 3
F_STR == 4
F_BUF == 5
F_OPEN_FLAGS == 6
F_FCNTL_CMD == 7
F_CLONE_FLAGS == 8
F_FD == 9
F_ATFD == 10
F_POINTER == 11

\* enum intercept_log_result
KNOWN == 0
UNKNOWN == 1

\* the size given to xprint_escape for one string or buffer argument
ESCAPE_DST_SIZE == 128

\* va_arg(ap, type): the k-th variadic argument slot.  Reading a slot after
\* the last argument the caller supplied is undefined; it yields whatever the
\* next stack slot or register holds, here the word junk.
va_arg(ap, k, junk) == IF k <= Len(ap) THEN ap[k] ELSE junk

\* the while (args > 0) loop of print_syscall; k is the slot va_arg reads next
RECURSIVE print_syscall_loop(_, _, _, _, _, _)
print_syscall_loop(b, args, ap, k, first, junk) ==
    IF args = 0 THEN [b |-> b, k |-> k]
    ELSE
      LET format == WToInt(va_arg(ap, k, junk))
          b0 == IF ~first THEN print_cstr(b, ", ") ELSE b
          a1 == va_arg(ap, k + 1, junk)
          a2 == va_arg(ap, k + 2, junk)
          b1 == CASE format = W(F_DEC) -> print_signed_dec(b0, a1)
                  [] format = W(F_OCT_MODE) -> print_number(print_cstr(b0, "0"), a1, 8, 1)
                  [] format = W(F_HEX) -> print_number(print_cstr(b0, "0x"), a1, 16, 1)
                  [] format = W(F_STR) ->
                        xprint_escape(b0, a1, ESCAPE_DST_SIZE, TRUE, W(0))
                  [] format = W(F_BUF) ->
                        xprint_escape(b0, a2, ESCAPE_DST_SIZE, FALSE, a1)
                  [] format = W(F_OPEN_FLAGS) -> print_open_flags(b0, WBits(WToInt(a1)))
                  [] format = W(F_FCNTL_CMD) -> print_fcntl_cmd(b0, a1)
                  [] format = W(F_CLONE_FLAGS) ->
                        print_flag_set(Len(b0), b0, WBits(WToInt(a1)), clone_flags)
                  [] format = W(F_FD) -> print_fd(b0, a1)
                  [] format = W(F_ATFD) -> print_atfd(b0, a1)
                  [] format = W(F_POINTER) -> print_pointer(b0, a1)
                  [] OTHER -> b0
          used == CASE format = W(F_BUF) -> 3
                    [] format \in {W(F_DEC), W(F_OCT_MODE), W(F_HEX), W(F_STR),
                                   W(F_OPEN_FLAGS), W(F_FCNTL_CMD), W(F_CLONE_FLAGS),
                                   W(F_FD), W(F_ATFD), W(F_POINTER)} -> 2
                    [] OTHER -> 1
      IN  print_syscall_loop(b1, args - 1, ap, k + used, FALSE, junk)

\* what print_syscall does after the loop, l being the text and the slot the
\* loop left: the result segment
print_syscall_result(l, ap, junk) ==
    IF WToInt(va_arg(ap, l.k, junk)) = W(KNOWN)
    THEN print_signed_dec(print_cstr(l.b, ") = "), va_arg(ap, l.k + 1, junk))
    ELSE print_cstr(print_cstr(l.b, ") = "), "?")

\* ap holds the variadic arguments as the caller passed them: the
\* (format, argument) slots, then the result marker and the result
print_syscall(b, name, args, ap, junk) ==
    print_syscall_result(
        print_syscall_loop(print_cstr(print_cstr(b, name), "("), args, ap, 1,
                           TRUE, junk),
        ap, junk)

(***************************************************************************)
(* intercept_log_syscall: the dispatch chain                               *)
(***************************************************************************)

\* The branches of the chain that only pass the raw arguments on to
\* print_syscall, in the order of the source.  nr is the value of SYS_<name>
\* on x86-64, args the count given to print_syscall, fmt the (format,
\* argument) pairs given after it: <<F, i>> stands for "F, arg<i>" and
\* <<F_BUF, i, j>> for "F_BUF, arg<i>, arg<j>".
syscall_table == <<
    [nr |-> 1, name |-> "write", args |-> 3,
     fmt |-> <<<<F_FD, 0>>, <<F_BUF, 2, 1>>, <<F_DEC, 2>>>>],
    [nr |-> 3, name |-> "close", args |-> 1, fmt |-> <<<<F_FD, 0>>>>],
    [nr |-> 4, name |-> "stat", args |-> 2,
     fmt |-> <<<<F_STR, 0>>, <<F_HEX, 1>>>>],
    [nr |-> 5, name |-> "fstat", args |-> 2,
     fmt |-> <<<<F_FD, 0>>, <<F_HEX, 1>>>>],
    [nr |-> 6, name |-> "lstat", args |-> 2,
     fmt |-> <<<<F_STR, 0>>, <<F_HEX, 1>>>>],
    [nr |-> 8, name |-> "lseek", args |-> 3,
     fmt |-> <<<<F_FD, 0>>, <<F_DEC, 1>>, <<F_DEC, 2>>>>],
    [nr |-> 9, name |-> "mmap", args |-> 6,
     fmt |-> <<<<F_POINTER, 0>>, <<F_DEC, 1>>, <<F_DEC, 2>>, <<F_DEC, 3>>, <<F_FD, 4>>, <<F_HEX, 5>>>>],
    [nr |-> 10, name |-> "mprotect", args |-> 3,
     fmt |-> <<<<F_POINTER, 0>>, <<F_DEC, 1>>, <<F_DEC, 2>>>>],
    [nr |-> 11, name |-> "munmap", args |-> 2,
     fmt |-> <<<<F_POINTER, 0>>, <<F_DEC, 1>>>>],
    [nr |-> 12, name |-> "brk", args |-> 1, fmt |-> <<<<F_DEC, 0>>>>],
    [nr |-> 16, name |-> "ioctl", args |-> 3,
     fmt |-> <<<<F_FD, 0>>, <<F_DEC, 1>>, <<F_DEC, 2>>>>],
    [nr |-> 17, name |-> "pread64", args |-> 4,
     fmt |-> <<<<F_FD, 0>>, <<F_BUF, 2, 1>>, <<F_DEC, 2>>, <<F_DEC, 3>>>>],
    [nr |-> 18, name |-> "pwrite64", args |-> 4,
     fmt |-> <<<<F_FD, 0>>, <<F_BUF, 2, 1>>, <<F_DEC, 2>>, <<F_DEC, 3>>>>],
    [nr |-> 19, name |-> "readv", args |-> 3,
     fmt |-> <<<<F_FD, 0>>, <<F_HEX, 1>>, <<F_DEC, 2>>>>],
    [nr |-> 20, name |-> "writev", args |-> 3,
     fmt |-> <<<<F_FD, 0>>, <<F_HEX, 1>>, <<F_DEC, 2>>>>],
    [nr |-> 21, name |-> "access", args |-> 2,
     fmt |-> <<<<F_STR, 0>>, <<F_DEC, 1>>>>],
    [nr |-> 25, name |-> "mremap", args |-> 5,
     fmt |-> <<<<F_POINTER, 0>>, <<F_DEC, 1>>, <<F_DEC, 2>>, <<F_DEC, 3>>, <<F_HEX, 4>>>>],
    [nr |-> 26, name |-> "msync", args |-> 3,
     fmt |-> <<<<F_POINTER, 0>>, <<F_DEC, 1>>, <<F_DEC, 2>>>>],
    [nr |-> 32, name |-> "dup", args |-> 1, fmt |-> <<<<F_FD, 0>>>>],
    [nr |-> 33, name |-> "dup2", args |-> 2,
     fmt |-> <<<<F_FD, 0>>, <<F_FD, 1>>>>],
    [nr |-> 72, name |-> "fcntl", args |-> 3,
     fmt |-> <<<<F_FD, 0>>, <<F_FCNTL_CMD, 1>>, <<F_HEX, 2>>>>],
    [nr |-> 73, name |-> "flock", args |-> 2,
     fmt |-> <<<<F_FD, 0>>, <<F_DEC, 1>>>>],
    [nr |-> 74, name |-> "fsync", args |-> 1, fmt |-> <<<<F_FD, 0>>>>],
    [nr |-> 75, name |-> "fdatasync", args |-> 1, fmt |-> <<<<F_FD, 0>>>>],
    [nr |-> 76, name |-> "truncate", args |-> 2,
     fmt |-> <<<<F_STR, 0>>, <<F_DEC, 1>>>>],
    [nr |-> 77, name |-> "ftruncate", args |-> 2,
     fmt |-> <<<<F_FD, 0>>, <<F_DEC, 1>>>>],
    [nr |-> 78, name |-> "getdents", args |-> 3,
     fmt |-> <<<<F_FD, 0>>, <<F_HEX, 1>>, <<F_DEC, 2>>>>],
    [nr |-> 80, name |-> "chdir", args |-> 1, fmt |-> <<<<F_STR, 0>>>>],
    [nr |-> 81, name |-> "fchdir", args |-> 1, fmt |-> <<<<F_FD, 0>>>>],
    [nr |-> 82, name |-> "rename", args |-> 2,
     fmt |-> <<<<F_STR, 0>>, <<F_STR, 1>>>>],
    [nr |-> 83, name |-> "mkdir", args |-> 2,
     fmt |-> <<<<F_STR, 0>>, <<F_OCT_MODE, 1>>>>],
    [nr |-> 84, name |-> "rmdir", args |-> 1, fmt |-> <<<<F_STR, 0>>>>],
    [nr |-> 85, name |-> "creat", args |-> 2,
     fmt |-> <<<<F_STR, 0>>, <<F_OCT_MODE, 1>>>>],
    [nr |-> 86, name |-> "link", args |-> 2,
     fmt |-> <<<<F_STR, 0>>, <<F_STR, 1>>>>],
    [nr |-> 87, name |-> "unlink", args |-> 1, fmt |-> <<<<F_STR, 0>>>>],
    [nr |-> 88, name |-> "symlink", args |-> 2,
     fmt |-> <<<<F_STR, 0>>, <<F_STR, 1>>>>],
    [nr |-> 90, name |-> "chmod", args |-> 2,
     fmt |-> <<<<F_STR, 0>>, <<F_OCT_MODE, 1>>>>],
    [nr |-> 91, name |-> "fchmod", args |-> 2,
     fmt |-> <<<<F_FD, 0>>, <<F_OCT_MODE, 1>>>>],
    [nr |-> 92, name |-> "chown", args |-> 3,
     fmt |-> <<<<F_STR, 0>>, <<F_DEC, 1>>, <<F_DEC, 2>>>>],
    [nr |-> 93, name |-> "fchown", args |-> 3,
     fmt |-> <<<<F_FD, 0>>, <<F_DEC, 1>>, <<F_DEC, 2>>>>],
    [nr |-> 94, name |-> "lchown", args |-> 3,
     fmt |-> <<<<F_STR, 0>>, <<F_DEC, 1>>, <<F_DEC, 2>>>>],
    [nr |-> 95, name |-> "umask", args |-> 1, fmt |-> <<<<F_OCT_MODE, 0>>>>],
    [nr |-> 133, name |-> "mknod", args |-> 3,
     fmt |-> <<<<F_STR, 0>>, <<F_OCT_MODE, 1>>, <<F_DEC, 2>>>>],
    [nr |-> 137, name |-> "statfs", args |-> 2,
     fmt |-> <<<<F_STR, 0>>, <<F_HEX, 1>>>>],
    [nr |-> 138, name |-> "fstatfs", args |-> 2,
     fmt |-> <<<<F_FD, 0>>, <<F_HEX, 1>>>>],
    [nr |-> 161, name |-> "chroot", args |-> 1, fmt |-> <<<<F_STR, 0>>>>],
    [nr |-> 187, name |-> "readahead", args |-> 3,
     fmt |-> <<<<F_FD, 0>>, <<F_DEC, 1>>, <<F_DEC, 2>>>>],
    [nr |-> 217, name |-> "getdents64", args |-> 3,
     fmt |-> <<<<F_FD, 0>>, <<F_HEX, 1>>, <<F_DEC, 2>>>>],
    [nr |-> 221, name |-> "fadvise64", args |-> 4,
     fmt |-> <<<<F_FD, 0>>, <<F_DEC, 1>>, <<F_DEC, 2>>, <<F_DEC, 3>>>>],
    [nr |-> 257, name |-> "openat", args |-> 4,
     fmt |-> <<<<F_ATFD, 0>>, <<F_STR, 1>>, <<F_OPEN_FLAGS, 2>>, <<F_OCT_MODE, 3>>>>],
    [nr |-> 258, name |-> "mkdirat", args |-> 4,
     fmt |-> <<<<F_ATFD, 0>>, <<F_STR, 1>>, <<F_OPEN_FLAGS, 2>>>>],
    [nr |-> 259, name |-> "mknodat", args |-> 4,
     fmt |-> <<<<F_ATFD, 0>>, <<F_STR, 1>>, <<F_OCT_MODE, 2>>, <<F_DEC, 3>>>>],
    [nr |-> 260, name |-> "fchownat", args |-> 5,
     fmt |-> <<<<F_ATFD, 0>>, <<F_STR, 1>>, <<F_DEC, 2>>, <<F_DEC, 3>>, <<F_DEC, 4>>>>],
    [nr |-> 261, name |-> "futimesat", args |-> 3,
     fmt |-> <<<<F_ATFD, 0>>, <<F_STR, 1>>, <<F_HEX, 2>>>>],
    [nr |-> 262, name |-> "newfstatat", args |-> 4,
     fmt |-> <<<<F_ATFD, 0>>, <<F_STR, 1>>, <<F_HEX, 2>>, <<F_DEC, 3>>>>],
    [nr |-> 263, name |-> "unlinkat", args |-> 3,
     fmt |-> <<<<F_ATFD, 0>>, <<F_STR, 1>>, <<F_DEC, 2>>>>],
    [nr |-> 264, name |-> "renameat", args |-> 4,
     fmt |-> <<<<F_ATFD, 0>>, <<F_STR, 1>>, <<F_ATFD, 2>>, <<F_STR, 3>>>>],
    [nr |-> 265, name |-> "linkat", args |-> 5,
     fmt |-> <<<<F_ATFD, 0>>, <<F_STR, 1>>, <<F_ATFD, 2>>, <<F_STR, 3>>, <<F_DEC, 4>>>>],
    [nr |-> 266, name |-> "symlinkat", args |-> 3,
     fmt |-> <<<<F_STR, 0>>, <<F_ATFD, 1>>, <<F_STR, 2>>>>],
    [nr |-> 267, name |-> "readlinkat", args |-> 4,
     fmt |-> <<<<F_ATFD, 0>>, <<F_STR, 1>>, <<F_STR, 2>>, <<F_DEC, 3>>>>],
    [nr |-> 268, name |-> "fchmodat", args |-> 3,
     fmt |-> <<<<F_ATFD, 0>>, <<F_STR, 1>>, <<F_OCT_MODE, 2>>>>],
    [nr |-> 269, name |-> "faccessat", args |-> 3,
     fmt |-> <<<<F_ATFD, 0>>, <<F_STR, 1>>, <<F_OCT_MODE, 2>>>>],
    [nr |-> 275, name |-> "splice", args |-> 6,
     fmt |-> <<<<F_FD, 0>>, <<F_HEX, 1>>, <<F_FD, 2>>, <<F_HEX, 3>>, <<F_DEC, 4>>, <<F_DEC, 5>>>>],
    [nr |-> 276, name |-> "tee", args |-> 4,
     fmt |-> <<<<F_FD, 0>>, <<F_FD, 1>>, <<F_DEC, 2>>, <<F_DEC, 3>>>>],
    [nr |-> 277, name |-> "sync_file_range", args |-> 4,
     fmt |-> <<<<F_FD, 0>>, <<F_DEC, 1>>, <<F_DEC, 2>>, <<F_DEC, 3>>>>],
    [nr |-> 280, name |-> "utimensat", args |-> 4,
     fmt |-> <<<<F_FD, 0>>, <<F_STR, 1>>, <<F_HEX, 2>>, <<F_DEC, 3>>>>],
    [nr |-> 285, name |-> "fallocate", args |-> 4,
     fmt |-> <<<<F_FD, 0>>, <<F_DEC, 1>>, <<F_DEC, 2>>, <<F_DEC, 3>>>>],
    [nr |-> 292, name |-> "dup3", args |-> 3,
     fmt |-> <<<<F_FD, 0>>, <<F_FD, 1>>, <<F_FD, 2>>>>],
    [nr |-> 295, name |-> "preadv", args |-> 4,
     fmt |-> <<<<F_FD, 0>>, <<F_HEX, 1>>, <<F_DEC, 2>>, <<F_DEC, 3>>>>],
    [nr |-> 296, name |-> "pwritev", args |-> 3,
     fmt |-> <<<<F_FD, 0>>, <<F_HEX, 1>>, <<F_DEC, 2>>>>],
    [nr |-> 303, name |-> "name_to_handle_at", args |-> 5,
     fmt |-> <<<<F_ATFD, 0>>, <<F_STR, 1>>, <<F_HEX, 2>>, <<F_HEX, 3>>, <<F_DEC, 4>>>>],
    [nr |-> 304, name |-> "open_by_handle_at", args |-> 3,
     fmt |-> <<<<F_FD, 0>>, <<F_HEX, 1>>, <<F_DEC, 2>>>>],
    [nr |-> 306, name |-> "syncfs", args |-> 1, fmt |-> <<<<F_FD, 0>>>>],
    [nr |-> 316, name |-> "renameat2", args |-> 5,
     fmt |-> <<<<F_ATFD, 0>>, <<F_STR, 1>>, <<F_ATFD, 2>>, <<F_STR, 3>>, <<F_DEC, 4>>>>],
    [nr |-> 59, name |-> "execve", args |-> 3,
     fmt |-> <<<<F_STR, 0>>, <<F_HEX, 1>>, <<F_HEX, 2>>>>],
    [nr |-> 322, name |-> "execveat", args |-> 4,
     fmt |-> <<<<F_ATFD, 0>>, <<F_STR, 1>>, <<F_HEX, 2>>, <<F_HEX, 3>>>>],
    [nr |-> 56, name |-> "clone", args |-> 5,
     fmt |-> <<<<F_CLONE_FLAGS, 0>>, <<F_HEX, 1>>, <<F_HEX, 2>>, <<F_HEX, 3>>, <<F_HEX, 4>>>>],
    [nr |-> 57, name |-> "fork", args |-> 0, fmt |-> <<>>],
    [nr |-> 61, name |-> "wait4", args |-> 4,
     fmt |-> <<<<F_DEC, 0>>, <<F_HEX, 1>>, <<F_HEX, 2>>, <<F_HEX, 3>>>>],
    [nr |-> 23, name |-> "select", args |-> 5,
     fmt |-> <<<<F_DEC, 0>>, <<F_POINTER, 1>>, <<F_POINTER, 2>>, <<F_POINTER, 3>>, <<F_POINTER, 4>>>>],
    [nr |-> 270, name |-> "pselect6", args |-> 6,
     fmt |-> <<<<F_DEC, 0>>, <<F_POINTER, 1>>, <<F_POINTER, 2>>, <<F_POINTER, 3>>, <<F_POINTER, 4>>, <<F_POINTER, 5>>>>],
    [nr |-> 7, name |-> "poll", args |-> 3,
     fmt |-> <<<<F_POINTER, 0>>, <<F_DEC, 1>>, <<F_DEC, 2>>>>],
    [nr |-> 271, name |-> "ppoll", args |-> 4,
     fmt |-> <<<<F_POINTER, 0>>, <<F_DEC, 1>>, <<F_POINTER, 2>>, <<F_POINTER, 3>>>>],
    [nr |-> 232, name |-> "epoll_wait", args |-> 4,
     fmt |-> <<<<F_DEC, 0>>, <<F_HEX, 1>>, <<F_DEC, 2>>, <<F_DEC, 3>>>>],
    [nr |-> 281, name |-> "epoll_pwait", args |-> 5,
     fmt |-> <<<<F_DEC, 0>>, <<F_HEX, 1>>, <<F_DEC, 2>>, <<F_DEC, 3>>, <<F_HEX, 4>>>>],
    [nr |-> 233, name |-> "epoll_ctl", args |-> 4,
     fmt |-> <<<<F_DEC, 0>>, <<F_DEC, 1>>, <<F_DEC, 2>>, <<F_HEX, 3>>>>],
    [nr |-> 13, name |-> "rt_sigaction", args |-> 3,
     fmt |-> <<<<F_DEC, 0>>, <<F_HEX, 1>>, <<F_HEX, 2>>>>],
    [nr |-> 14, name |-> "rt_sigprocmask", args |-> 3,
     fmt |-> <<<<F_DEC, 0>>, <<F_HEX, 1>>, <<F_HEX, 2>>>>],
    [nr |-> 15, name |-> "rt_sigreturn", args |-> 1,
     fmt |-> <<<<F_HEX, 0>>>>],
    [nr |-> 102, name |-> "getuid", args |-> 0, fmt |-> <<>>],
    [nr |-> 107, name |-> "geteuid", args |-> 0, fmt |-> <<>>],
    [nr |-> 118, name |-> "getresuid", args |-> 3,
     fmt |-> <<<<F_HEX, 0>>, <<F_HEX, 1>>, <<F_HEX, 2>>>>],
    [nr |-> 105, name |-> "setuid", args |-> 1, fmt |-> <<<<F_DEC, 0>>>>],
    [nr |-> 113, name |-> "setreuid", args |-> 2,
     fmt |-> <<<<F_DEC, 0>>, <<F_DEC, 1>>>>],
    [nr |-> 117, name |-> "setresuid", args |-> 3,
     fmt |-> <<<<F_DEC, 0>>, <<F_DEC, 1>>, <<F_DEC, 2>>>>],
    [nr |-> 122, name |-> "setfsuid", args |-> 1, fmt |-> <<<<F_DEC, 0>>>>],
    [nr |-> 104, name |-> "getgid", args |-> 0, fmt |-> <<>>],
    [nr |-> 108, name |-> "getegid", args |-> 0, fmt |-> <<>>],
    [nr |-> 120, name |-> "getresgid", args |-> 3,
     fmt |-> <<<<F_HEX, 0>>, <<F_HEX, 1>>, <<F_HEX, 2>>>>],
    [nr |-> 106, name |-> "setgid", args |-> 1, fmt |-> <<<<F_DEC, 0>>>>],
    [nr |-> 114, name |-> "setregid", args |-> 2,
     fmt |-> <<<<F_DEC, 0>>, <<F_DEC, 1>>>>],
    [nr |-> 119, name |-> "setresgid", args |-> 3,
     fmt |-> <<<<F_DEC, 0>>, <<F_DEC, 1>>, <<F_DEC, 2>>>>],
    [nr |-> 123, name |-> "setfsgid", args |-> 1, fmt |-> <<<<F_DEC, 0>>>>],
    [nr |-> 115, name |-> "getgroups", args |-> 2,
     fmt |-> <<<<F_DEC, 0>>, <<F_HEX, 1>>>>],
    [nr |-> 116, name |-> "setgroups", args |-> 2,
     fmt |-> <<<<F_DEC, 0>>, <<F_HEX, 1>>>>],
    [nr |-> 112, name |-> "setsid", args |-> 0, fmt |-> <<>>],
    [nr |-> 124, name |-> "getsid", args |-> 1, fmt |-> <<<<F_DEC, 0>>>>],
    [nr |-> 39, name |-> "getpid", args |-> 0, fmt |-> <<>>],
    [nr |-> 110, name |-> "getppid", args |-> 0, fmt |-> <<>>],
    [nr |-> 186, name |-> "gettid", args |-> 0, fmt |-> <<>>],
    [nr |-> 63, name |-> "uname", args |-> 1, fmt |-> <<<<F_HEX, 0>>>>],
    [nr |-> 202, name |-> "futex", args |-> 6,
     fmt |-> <<<<F_HEX, 0>>, <<F_DEC, 1>>, <<F_DEC, 2>>, <<F_HEX, 3>>, <<F_HEX, 4>>, <<F_DEC, 5>>>>],
    [nr |-> 274, name |-> "get_robust_list", args |-> 3,
     fmt |-> <<<<F_DEC, 0>>, <<F_HEX, 1>>, <<F_HEX, 2>>>>],
    [nr |-> 273, name |-> "set_robust_list", args |-> 2,
     fmt |-> <<<<F_HEX, 0>>, <<F_DEC, 1>>>>],
    [nr |-> 22, name |-> "pipe", args |-> 1, fmt |-> <<<<F_HEX, 0>>>>],
    [nr |-> 293, name |-> "pipe2", args |-> 2,
     fmt |-> <<<<F_HEX, 0>>, <<F_HEX, 1>>>>],
    [nr |-> 41, name |-> "socket", args |-> 3,
     fmt |-> <<<<F_DEC, 0>>, <<F_DEC, 1>>, <<F_DEC, 2>>>>],
    [nr |-> 42, name |-> "connect", args |-> 3,
     fmt |-> <<<<F_FD, 0>>, <<F_HEX, 1>>, <<F_DEC, 2>>>>],
    [nr |-> 62, name |-> "kill", args |-> 2,
     fmt |-> <<<<F_DEC, 0>>, <<F_DEC, 1>>>>],
    [nr |-> 200, name |-> "tkill", args |-> 2,
     fmt |-> <<<<F_DEC, 0>>, <<F_DEC, 1>>>>],
    [nr |-> 234, name |-> "tgkill", args |-> 3,
     fmt |-> <<<<F_DEC, 0>>, <<F_DEC, 1>>, <<F_DEC, 2>>>>],
    [nr |-> 99, name |-> "sysinfo", args |-> 1, fmt |-> <<<<F_HEX, 0>>>>],
    [nr |-> 191, name |-> "getxattr", args |-> 4,
     fmt |-> <<<<F_STR, 0>>, <<F_STR, 1>>, <<F_BUF, 3, 2>>, <<F_DEC, 3>>>>],
    [nr |-> 192, name |-> "lgetxattr", args |-> 4,
     fmt |-> <<<<F_STR, 0>>, <<F_STR, 1>>, <<F_BUF, 3, 2>>, <<F_DEC, 3>>>>],
    [nr |-> 193, name |-> "fgetxattr", args |-> 4,
     fmt |-> <<<<F_FD, 0>>, <<F_STR, 1>>, <<F_BUF, 3, 2>>, <<F_DEC, 3>>>>],
    [nr |-> 160, name |-> "setrlimit", args |-> 2,
     fmt |-> <<<<F_DEC, 0>>, <<F_HEX, 1>>>>],
    [nr |-> 97, name |-> "getrlimit", args |-> 2,
     fmt |-> <<<<F_DEC, 0>>, <<F_HEX, 1>>>>],
    [nr |-> 98, name |-> "getrusage", args |-> 2,
     fmt |-> <<<<F_DEC, 0>>, <<F_HEX, 1>>>>],
    [nr |-> 49, name |-> "bind", args |-> 3,
     fmt |-> <<<<F_FD, 0>>, <<F_HEX, 1>>, <<F_DEC, 2>>>>],
    [nr |-> 52, name |-> "getpeername", args |-> 3,
     fmt |-> <<<<F_DEC, 0>>, <<F_HEX, 1>>, <<F_HEX, 2>>>>],
    [nr |-> 51, name |-> "getsockname", args |-> 3,
     fmt |-> <<<<F_DEC, 0>>, <<F_HEX, 1>>, <<F_HEX, 2>>>>],
    [nr |-> 45, name |-> "recvfrom", args |-> 6,
     fmt |-> <<<<F_DEC, 0>>, <<F_HEX, 1>>, <<F_DEC, 2>>, <<F_DEC, 3>>, <<F_HEX, 4>>, <<F_HEX, 5>>>>],
    [nr |-> 47, name |-> "recvmsg", args |-> 3,
     fmt |-> <<<<F_DEC, 0>>, <<F_HEX, 1>>, <<F_DEC, 2>>>>],
    [nr |-> 44, name |-> "sendto", args |-> 6,
     fmt |-> <<<<F_DEC, 0>>, <<F_HEX, 1>>, <<F_DEC, 2>>, <<F_DEC, 3>>, <<F_HEX, 4>>, <<F_HEX, 5>>>>],
    [nr |-> 46, name |-> "sendmsg", args |-> 3,
     fmt |-> <<<<F_DEC, 0>>, <<F_HEX, 1>>, <<F_DEC, 2>>>>],
    [nr |-> 307, name |-> "sendmmsg", args |-> 4,
     fmt |-> <<<<F_DEC, 0>>, <<F_HEX, 1>>, <<F_DEC, 2>>, <<F_DEC, 3>>>>],
    [nr |-> 48, name |-> "shutdown", args |-> 2,
     fmt |-> <<<<F_DEC, 0>>, <<F_DEC, 1>>>>],
    [nr |-> 319, name |-> "memfd_create", args |-> 2,
     fmt |-> <<<<F_STR, 0>>, <<F_DEC, 1>>>>],
    [nr |-> 28, name |-> "madvise", args |-> 3,
     fmt |-> <<<<F_HEX, 0>>, <<F_DEC, 1>>, <<F_DEC, 2>>>>],
    [nr |-> 29, name |-> "shmget", args |-> 3,
     fmt |-> <<<<F_DEC, 0>>, <<F_DEC, 1>>, <<F_DEC, 2>>>>],
    [nr |-> 30, name |-> "shmat", args |-> 3,
     fmt |-> <<<<F_DEC, 0>>, <<F_HEX, 1>>, <<F_DEC, 2>>>>],
    [nr |-> 31, name |-> "shmctl", args |-> 3,
     fmt |-> <<<<F_DEC, 0>>, <<F_DEC, 1>>, <<F_HEX, 2>>>>],
    [nr |-> 67, name |-> "shmdt", args |-> 1, fmt |-> <<<<F_HEX, 0>>>>],
    [nr |-> 54, name |-> "setsockopt", args |-> 5,
     fmt |-> <<<<F_DEC, 0>>, <<F_DEC, 1>>, <<F_DEC, 2>>, <<F_HEX, 3>>, <<F_DEC, 4>>>>],
    [nr |-> 55, name |-> "getsockopt", args |-> 5,
     fmt |-> <<<<F_DEC, 0>>, <<F_DEC, 1>>, <<F_DEC, 2>>, <<F_HEX, 3>>, <<F_HEX, 4>>>>],
    [nr |-> 140, name |-> "getpriority", args |-> 2,
     fmt |-> <<<<F_DEC, 0>>, <<F_DEC, 1>>>>],
    [nr |-> 141, name |-> "setpriority", args |-> 3,
     fmt |-> <<<<F_DEC, 0>>, <<F_DEC, 1>>, <<F_DEC, 2>>>>],
    [nr |-> 157, name |-> "prctl", args |-> 5,
     fmt |-> <<<<F_DEC, 0>>, <<F_DEC, 1>>, <<F_DEC, 2>>, <<F_DEC, 3>>, <<F_DEC, 4>>>>],
    [nr |-> 179, name |-> "quotactl", args |-> 4,
     fmt |-> <<<<F_DEC, 0>>, <<F_HEX, 1>>, <<F_DEC, 2>>, <<F_DEC, 3>>>>],
    [nr |-> 229, name |-> "clock_getres", args |-> 2,
     fmt |-> <<<<F_DEC, 0>>, <<F_HEX, 1>>>>],
    [nr |-> 228, name |-> "clock_gettime", args |-> 2,
     fmt |-> <<<<F_DEC, 0>>, <<F_HEX, 1>>>>],
    [nr |-> 227, name |-> "clock_settime", args |-> 2,
     fmt |-> <<<<F_DEC, 0>>, <<F_HEX, 1>>>>],
    [nr |-> 230, name |-> "clock_nanosleep", args |-> 4,
     fmt |-> <<<<F_DEC, 0>>, <<F_DEC, 1>>, <<F_HEX, 2>>, <<F_HEX, 3>>>>],
    [nr |-> 290, name |-> "eventfd2", args |-> 2,
     fmt |-> <<<<F_DEC, 0>>, <<F_DEC, 1>>>>] >>

\* the syscall numbers of the branches that do more than pass arguments on
SYS == [read |-> 0, open |-> 2, getcwd |-> 79, readlink |-> 89,
        exit_group |-> 231, exit |-> 60, vfork |-> 58]

\* a faulty variant of table_slots: the size of a counted buffer is passed
\* as 0
table_slots_no_size(f, arg) ==
    IF Len(f) = 3 THEN <<W(f[1]), W(0), arg[f[3] + 1]>>
    ELSE <<W(f[1]), arg[f[2] + 1]>>

\* the slots one entry f of a branch's format list puts into the variadic
\* arguments: the format, then arg<i>, or arg<i> (the size) and arg<j>
table_slots(f, arg) ==
    IF Len(f) = 3 THEN <<W(f[1]), arg[f[2] + 1], arg[f[3] + 1]>>
    ELSE <<W(f[1]), arg[f[2] + 1]>>

\* the variadic arguments a branch of syscall_table passes to print_syscall
RECURSIVE table_va(_, _, _)
table_va(fmt, i, arg) ==
    IF i > Len(fmt) THEN <<>>
    ELSE table_slots(fmt[i], arg) \o table_va(fmt, i + 1, arg)

\* sprintf(buf, "%s 0x%lx -- ", libpath, syscall_offset)
sprintf_site(libpath, syscall_offset) ==
    libpath \o " 0x" \o print_number("", syscall_offset, 16, 1) \o " -- "

\* sprintf(buf, "%d", (int)v)
sprintf_d(v) == print_signed_dec("", WToInt(v))

\* a faulty variant of read_print_size: the result is used as it is
read_print_size_unchecked(result_known, result) == result

\* print_size of the read and readlink branches: the bytes of the buffer
\* that are printed
read_print_size(result_known, result) ==
    IF result_known = UNKNOWN \/ WIsNeg(result) THEN W(0) ELSE result

\* a faulty variant of syscall_generic: the number is passed as F_HEX
syscall_generic_hex_nr(nr, arg, result_known, result) ==
    [direct |-> FALSE, name |-> "syscall", args |-> 7,
     ap |-> <<W(F_HEX), nr, W(F_HEX), arg[1], W(F_HEX), arg[2],
              W(F_HEX), arg[3], W(F_HEX), arg[4], W(F_HEX), arg[5],
              W(F_HEX), arg[6], W(result_known), result>>]

\* the last else of the chain: the call made for a number with no branch
syscall_generic(nr, arg, result_known, result) ==
    [direct |-> FALSE, name |-> "syscall", args |-> 7,
     ap |-> <<W(F_DEC), nr, W(F_HEX), arg[1], W(F_HEX), arg[2],
              W(F_HEX), arg[3], W(F_HEX), arg[4], W(F_HEX), arg[5],
              W(F_HEX), arg[6], W(result_known), result>>]

\* The branch the if-chain of intercept_log_syscall takes, as the call it
\* makes: print_syscall(buf, name, args, ap...) where direct is FALSE, and
\* the text the branch prints by itself otherwise.  arg[i + 1] is arg<i>.
syscall_branch(nr, arg, result_known, result) ==
    LET print_size == read_print_size(result_known, result)
        hit == {i \in 1..Len(syscall_table) : W(syscall_table[i].nr) = nr}
    IN  CASE nr = W(SYS.read) ->
               [direct |-> FALSE, name |-> "read", args |-> 3,
                ap |-> <<W(F_FD), arg[1], W(F_BUF), print_size, arg[2],
                         W(F_DEC), arg[3], W(result_known), result>>]
          [] nr = W(SYS.open) ->
               IF O_CREAT_BITS \subseteq WBits(arg[2])
               THEN [direct |-> FALSE, name |-> "open", args |-> 3,
                     ap |-> <<W(F_STR), arg[1], W(F_OPEN_FLAGS), arg[2],
                              W(F_OCT_MODE), arg[3], W(result_known), result>>]
               ELSE [direct |-> FALSE, name |-> "open", args |-> 2,
                     ap |-> <<W(F_STR), arg[1], W(F_OPEN_FLAGS), arg[2],
                              W(result_known), result>>]
          [] nr = W(SYS.getcwd) ->
               [direct |-> FALSE, name |-> "getcwd", args |-> 2,
                ap |-> <<W(F_STR),
                         IF result_known = KNOWN THEN arg[1] ELSE W(QQQ_ADDR),
                         W(F_DEC), arg[2], W(result_known), result>>]
          [] nr = W(SYS.readlink) ->
               [direct |-> FALSE, name |-> "readlink", args |-> 3,
                ap |-> <<W(F_STR), arg[1], W(F_BUF), print_size, arg[2],
                         W(F_DEC), arg[3], W(result_known), result>>]
          [] nr = W(SYS.exit_group) ->
               [direct |-> TRUE, text |-> "exit_group(" \o sprintf_d(arg[1]) \o ")"]
          [] nr = W(SYS.exit) ->
               [direct |-> TRUE, text |-> "exit(" \o sprintf_d(arg[1]) \o ")"]
          [] nr = W(SYS.vfork) ->
               [direct |-> TRUE, text |-> "vfork()"]
          [] OTHER ->
               IF hit # {}
               THEN LET e == syscall_table[CHOOSE i \in hit : \A j \in hit : i <= j]
                    IN  [direct |-> FALSE, name |-> e.name, args |-> e.args,
                         ap |-> table_va(e.fmt, 1, arg)
                                \o <<W(result_known), result>>]
               ELSE syscall_generic(nr, arg, result_known, result)

\* the text of buffer after the branch br ran
syscall_print(buf, br, junk) ==
    IF br.direct THEN print_cstr(buf, br.text)
    ELSE print_syscall(buf, br.name, br.args, br.ap, junk)

\* the if-chain of intercept_log_syscall: the text of buffer when it is left
syscall_chain(buf, nr, arg, result_known, result, junk) ==
    syscall_print(buf, syscall_branch(nr, arg, result_known, result), junk)

\* sizeof(buffer) in intercept_log_syscall
BUFFER_SIZE == 4096

\* a faulty variant of syscall_line: the newline is not stored
syscall_line_no_newline(r) ==
    syscall_chain(sprintf_site(r.libpath, r.syscall_offset), r.nr, r.arg,
                  r.result_known, r.result, r.junk)

\* The bytes intercept_log_syscall has put into buffer when it calls
\* intercept_log: the site, the text of the chain and the newline.
syscall_line(r) ==
    syscall_chain(sprintf_site(r.libpath, r.syscall_offset), r.nr, r.arg,
                  r.result_known, r.result, r.junk) \o "\n"

(***************************************************************************)
(* The kernel, as far as the sink uses it                                  *)
(***************************************************************************)

\* the errors the kernel calls of the model return, as -errno
ENOENT == 2
EBADF == 9
EACCES == 13

\* what SYS_getpid returns
PID == 4242

\* the descriptors the kernel can hand out for the log: how many there are
\* beyond the first one
MaxFd == 1

\* the first descriptor that is not stdin, stdout or stderr
FIRST_FD == 3

FdPool == FIRST_FD..(FIRST_FD + MaxFd)

\* the files the model's paths can name
Paths == {"log", "log-4242", "4242"}

\* k.fds maps each open descriptor to the path it was opened on, k.files each
\* path to the sequence of the writes appended to it
KernelInit == [fds |-> <<>>, files |-> [p \in Paths |-> <<>>]]

\* the results SYS_open may return for path: a free descriptor, or an error
\* (-ENOENT is the only result for the empty path)
sys_open_results(k, path) ==
    IF path \notin Paths THEN {-ENOENT}
    ELSE (FdPool \ DOMAIN k.fds) \cup {-EACCES}

\* the kernel after SYS_open(path, flags) returned ret; flags is a bit set
sys_open(k, path, flags, ret) ==
    IF ret < 0 THEN k
    ELSE [fds |-> [d \in DOMAIN k.fds \cup {ret} |->
                      IF d = ret THEN path ELSE k.fds[d]],
          files |-> IF 9 \in flags THEN [k.files EXCEPT ![path] = <<>>]
                    ELSE k.files]

sys_close_result(k, fd) == IF fd \in DOMAIN k.fds THEN 0 ELSE -EBADF

sys_close(k, fd) ==
    [k EXCEPT !.fds = [d \in DOMAIN k.fds \ {fd} |-> k.fds[d]]]

sys_write_result(k, fd, data) == IF fd \in DOMAIN k.fds THEN Len(data) ELSE -EBADF

\* every descriptor of the log is opened with O_APPEND: a write is appended
\* to the file as one unit
sys_write(k, fd, data) ==
    IF fd \in DOMAIN k.fds
    THEN [k EXCEPT !.files[k.fds[fd]] = Append(@, data)]
    ELSE k

(***************************************************************************)
(* State                                                                   *)
(***************************************************************************)

VARIABLES
    log_fd,     \* static int log_fd
    kernel,     \* the kernel's descriptors and files
    aborted,    \* the process was aborted or killed
    ncalls,     \* how many calls of the module's functions were made
    last,       \* the call made last: its arguments, the kernel calls it
                \* issued (sys) and whether it returned
    thr,        \* the threads inside intercept_log_syscall: each thread's
                \* position and the variables of its call
    stack,      \* the storage of the buffer variable of each call
    issued      \* the records of the calls that found the sink open

vars == <<log_fd, kernel, aborted, ncalls, last, thr, stack, issued>>

\* how many calls of the module's functions a run makes at most
MaxCalls == 4

\* a hook calls intercept_log_syscall only among the first MaxHookCalls calls
\* of a run
MaxHookCalls == 3

\* how many threads run besides the one that sets up and closes the log
NThreads == 2

Threads == 1..NThreads

Idle == [pc |-> "idle"]

AllIdle == \A t \in Threads : thr[t].pc = "idle"

Init ==
    /\ log_fd = -1
    /\ kernel = KernelInit
    /\ aborted = FALSE
    /\ ncalls = 0
    /\ last = [op |-> "none", sys |-> <<>>, returned |-> TRUE]
    /\ thr = [t \in Threads |-> Idle]
    /\ stack = [t \in Threads |-> ""]
    /\ issued = <<>>

\* a call can start: the process lives and the run's budget is not used up
CanCall == ~aborted /\ ncalls < MaxCalls

(***************************************************************************)
(* The sink: intercept_setup_log, intercept_log_close, intercept_log       *)
(***************************************************************************)

\* a const char * argument: <<>> is NULL, <<s>> points to the string s
NULL == <<>>

\* syscall_error_code(result) != 0, the test of xabort_on_syserror: the
\* kernel reports an error as a value in -4095..-1
xabort_on_syserror(result) == result < 0 /\ result >= -4095

\* sizeof(full_path)
PATH_MAX == 4096

\* the path intercept_setup_log opens.  For the empty string,
\* path_base[strlen(path_base) - 1] reads the byte before the string:
\* before_is_dash tells whether that byte is '-'.
setup_log_path(path_base, before_is_dash) ==
    LET n == Len(path_base)
        dash == IF n = 0 THEN before_is_dash ELSE SubSeq(path_base, n, n) = "-"
        full == path_base \o print_signed_dec("", W(PID))
    IN  IF dash THEN SubSeq(full, 1, IF Len(full) < PATH_MAX THEN Len(full)
                                     ELSE PATH_MAX - 1)
        ELSE path_base

\* O_CREAT | O_RDWR | O_APPEND | O_TRUNC, without O_TRUNC when trunc starts
\* with '0'
setup_log_flags(trunc) ==
    LET flags == {6, 1, 10, 9}
    IN  IF trunc # NULL /\ Len(trunc[1]) > 0 /\ SubSeq(trunc[1], 1, 1) = "0"
        THEN flags \ {9} ELSE flags

\* a faulty variant of log_close_effect: log_fd is not reset
log_close_effect_no_reset(fd, k) ==
    IF fd >= 0
    THEN [log_fd |-> fd, kernel |-> sys_close(k, fd),
          sys |-> <<[call |-> "close", fd |-> fd, ret |-> sys_close_result(k, fd)]>>]
    ELSE [log_fd |-> fd, kernel |-> k, sys |-> <<>>]

\* a faulty variant of log_close_effect: the descriptor is not closed
log_close_effect_no_close(fd, k) ==
    [log_fd |-> IF fd >= 0 THEN -1 ELSE fd, kernel |-> k, sys |-> <<>>]

\* the body of intercept_log_close on the state <<fd, k>>: the state it
\* leaves and the kernel calls it issues
log_close_effect(fd, k) ==
    IF fd >= 0
    THEN [log_fd |-> -1, kernel |-> sys_close(k, fd),
          sys |-> <<[call |-> "close", fd |-> fd, ret |-> sys_close_result(k, fd)]>>]
    ELSE [log_fd |-> fd, kernel |-> k, sys |-> <<>>]

intercept_log_close ==
    /\ CanCall /\ AllIdle
    /\ LET e == log_close_effect(log_fd, kernel)
       IN  /\ log_fd' = e.log_fd
           /\ kernel' = e.kernel
           /\ last' = [op |-> "intercept_log_close", pre_fd |-> log_fd,
                       sys |-> e.sys, returned |-> TRUE]
    /\ ncalls' = ncalls + 1
    /\ UNCHANGED <<aborted, thr, stack, issued>>

\* a faulty variant of setup_log_aborts: the result of open is not tested
setup_log_aborts_never(ret) == FALSE

\* xabort_on_syserror(log_fd, "opening log"), the last statement of
\* intercept_setup_log: whether the process is aborted, log_fd holding ret
setup_log_aborts(ret) == xabort_on_syserror(ret)

\* a faulty variant of intercept_setup_log: intercept_log_close is called
\* before path_base is tested
intercept_setup_log_close_first(path_base, trunc) ==
    /\ CanCall /\ AllIdle
    /\ ncalls' = ncalls + 1
    /\ UNCHANGED <<thr, stack, issued>>
    /\ IF path_base = NULL
       THEN LET c == log_close_effect(log_fd, kernel)
            IN  /\ log_fd' = c.log_fd
                /\ kernel' = c.kernel
                /\ last' = [op |-> "intercept_setup_log", path_base |-> path_base,
                            pre_fd |-> log_fd, sys |-> c.sys, returned |-> TRUE]
                /\ UNCHANGED aborted
       ELSE \E before_is_dash \in (IF path_base[1] = "" THEN BOOLEAN ELSE {FALSE}) :
              LET path  == setup_log_path(path_base[1], before_is_dash)
                  flags == setup_log_flags(trunc)
                  c     == log_close_effect(log_fd, kernel)
              IN  \E ret \in sys_open_results(c.kernel, path) :
                    /\ log_fd' = ret
                    /\ kernel' = sys_open(c.kernel, path, flags, ret)
                    /\ aborted' = setup_log_aborts(ret)
                    /\ last' = [op |-> "intercept_setup_log",
                                path_base |-> path_base, pre_fd |-> log_fd,
                                sys |-> c.sys \o <<[call |-> "open", path |-> path,
                                                    flags |-> flags, ret |-> ret]>>,
                                returned |-> ~setup_log_aborts(ret)]

intercept_setup_log(path_base, trunc) ==
    /\ CanCall /\ AllIdle
    /\ ncalls' = ncalls + 1
    /\ UNCHANGED <<thr, stack, issued>>
    /\ IF path_base = NULL
       THEN /\ last' = [op |-> "intercept_setup_log", path_base |-> path_base,
                        pre_fd |-> log_fd, sys |-> <<>>, returned |-> TRUE]
            /\ UNCHANGED <<log_fd, kernel, aborted>>
       ELSE \E before_is_dash \in (IF path_base[1] = "" THEN BOOLEAN ELSE {FALSE}) :
              LET path  == setup_log_path(path_base[1], before_is_dash)
                  flags == setup_log_flags(trunc)
                  c     == log_close_effect(log_fd, kernel)
              IN  \E ret \in sys_open_results(c.kernel, path) :
                    /\ log_fd' = ret
                    /\ kernel' = sys_open(c.kernel, path, flags, ret)
                    /\ aborted' = setup_log_aborts(ret)
                    /\ last' = [op |-> "intercept_setup_log",
                                path_base |-> path_base, pre_fd |-> log_fd,
                                sys |-> c.sys \o <<[call |-> "open", path |-> path,
                                                    flags |-> flags, ret |-> ret]>>,
                                returned |-> ~setup_log_aborts(ret)]

\* a faulty variant of log_effect: log_fd is not tested
log_effect_unguarded(fd, k, buffer) ==
    [kernel |-> sys_write(k, fd, buffer),
     sys |-> <<[call |-> "write", fd |-> fd, data |-> buffer,
                ret |-> sys_write_result(k, fd, buffer)]>>]

\* the body of intercept_log on the state <<fd, k>>
log_effect(fd, k, buffer) ==
    IF fd >= 0
    THEN [kernel |-> sys_write(k, fd, buffer),
          sys |-> <<[call |-> "write", fd |-> fd, data |-> buffer,
                     ret |-> sys_write_result(k, fd, buffer)]>>]
    ELSE [kernel |-> k, sys |-> <<>>]

intercept_log(buffer) ==
    /\ CanCall /\ AllIdle
    /\ LET e == log_effect(log_fd, kernel, buffer)
       IN  /\ kernel' = e.kernel
           /\ last' = [op |-> "intercept_log", pre_fd |-> log_fd, buffer |-> buffer,
                       sys |-> e.sys, returned |-> TRUE]
    /\ ncalls' = ncalls + 1
    /\ UNCHANGED <<log_fd, aborted, thr, stack, issued>>

\* what intercept_log_syscall does with the line it built when the sink is
\* open.  A line longer than buffer is written past the end of the stack
\* array: the behaviour is undefined, and the call either goes on with the
\* bytes it wrote or the process is killed.
log_syscall_emit(r, line) ==
    \E killed \in (IF Len(line) > BUFFER_SIZE THEN BOOLEAN ELSE {FALSE}) :
      /\ kernel' = IF killed THEN kernel ELSE sys_write(kernel, log_fd, line)
      /\ aborted' = killed
      /\ last' = [op |-> "intercept_log_syscall", r |-> r, pre_fd |-> log_fd,
                  sys |-> IF killed THEN <<>>
                          ELSE <<[call |-> "write", fd |-> log_fd, data |-> line,
                                  ret |-> sys_write_result(kernel, log_fd, line)]>>,
                  returned |-> ~killed, overflow |-> Len(line) > BUFFER_SIZE]

\* intercept_log_syscall as one step (no other thread runs meanwhile)
intercept_log_syscall(r) ==
    /\ CanCall /\ AllIdle
    /\ ncalls' = ncalls + 1
    /\ UNCHANGED <<log_fd, thr, stack, issued>>
    /\ IF log_fd < 0
       THEN /\ last' = [op |-> "intercept_log_syscall", r |-> r, pre_fd |-> log_fd,
                        sys |-> <<>>, returned |-> TRUE, overflow |-> FALSE]
            /\ UNCHANGED <<kernel, aborted>>
       ELSE log_syscall_emit(r, syscall_line(r))

\* xprint_escape(dst, src, dst_size, zero_term, src_size) called with dst at
\* the start of a buffer: last records the arguments and the text written
xprint_escape_call(src, dst_size, zero_term, src_size) ==
    /\ ~aborted
    /\ last' = [op |-> "xprint_escape", src |-> src, dst_size |-> dst_size,
                zero_term |-> zero_term, src_size |-> src_size,
                out |-> xprint_escape("", src, dst_size, zero_term, src_size),
                sys |-> <<>>, returned |-> TRUE]
    /\ UNCHANGED <<log_fd, kernel, aborted, ncalls, thr, stack, issued>>

\* What a call of print_number leaves, text being the digits its loop
\* stores (last.stored counts them).  digits[] holds sizeof(digits) - 1 of them before its terminator:
\* one more is stored before the start of the array, which is undefined,
\* and the call may then give the full text, a damaged one, or not return.
print_number_outcome(n, base, width, text) ==
    IF Len(text) > DigitsSize - 1
    THEN \E out \in {text, SubSeq(text, Len(text) - DigitsSize + 2, Len(text)), ""},
            crash \in BOOLEAN :
            /\ last' = [op |-> "print_number", n |-> n, base |-> base,
                        width |-> width, out |-> out, ub |-> TRUE,
                        stored |-> Len(text),
                        sys |-> <<>>, returned |-> ~crash]
            /\ aborted' = crash
    ELSE /\ last' = [op |-> "print_number", n |-> n, base |-> base,
                     width |-> width, out |-> text, ub |-> FALSE,
                     stored |-> Len(text),
                     sys |-> <<>>, returned |-> TRUE]
         /\ UNCHANGED aborted

\* print_number(dst, n, base, width) called with dst at the start of a buffer
print_number_call(n, base, width) ==
    /\ ~aborted
    /\ print_number_outcome(n, base, width, print_number("", n, base, width))
    /\ UNCHANGED <<log_fd, kernel, ncalls, thr, stack, issued>>

\* print_flag_set(buffer_start, c, flags, desc) called with c at the start
\* of a buffer; flags is the set of the bits of the mask
print_flag_set_call(flags, desc) ==
    /\ ~aborted
    /\ last' = [op |-> "print_flag_set", flags |-> flags, desc |-> desc,
                out |-> print_flag_set(0, "", flags, desc),
                sys |-> <<>>, returned |-> TRUE]
    /\ UNCHANGED <<log_fd, kernel, aborted, ncalls, thr, stack, issued>>

\* print_open_flags(buffer, flags) called with buffer at the start of a
\* buffer; flags is the set of the bits of the int
print_open_flags_call(flags) ==
    /\ ~aborted
    /\ last' = [op |-> "print_open_flags", flags |-> flags,
                out |-> print_open_flags("", flags),
                sys |-> <<>>, returned |-> TRUE]
    /\ UNCHANGED <<log_fd, kernel, aborted, ncalls, thr, stack, issued>>

(***************************************************************************)
(* intercept_log_syscall, statement by statement, on several threads       *)
(***************************************************************************)

\* a faulty variant of buffer_of: one static buffer serves every call
buffer_of_shared(t) == 1

\* where the buffer variable of thread t's call lives: char buffer[0x1000]
\* is an automatic variable, so each call has its own
buffer_of(t) == t

\* a hook calls intercept_log_syscall
mt_call(t, r) ==
    /\ CanCall /\ ncalls < MaxHookCalls
    /\ thr[t].pc = "idle"
    /\ thr' = [thr EXCEPT ![t] = [pc |-> "entry", r |-> r]]
    /\ ncalls' = ncalls + 1
    /\ UNCHANGED <<log_fd, kernel, aborted, last, stack, issued>>

\* if (log_fd < 0) return;
mt_entry(t) ==
    /\ ~aborted
    /\ thr[t].pc = "entry"
    /\ IF log_fd < 0
       THEN /\ thr' = [thr EXCEPT ![t] = Idle]
            /\ UNCHANGED issued
       ELSE /\ thr' = [thr EXCEPT ![t].pc = "sprintf"]
            /\ issued' = Append(issued,
                                [r |-> thr[t].r,
                                 path |-> IF log_fd \in DOMAIN kernel.fds
                                          THEN kernel.fds[log_fd] ELSE ""])
    /\ UNCHANGED <<log_fd, kernel, aborted, ncalls, last, stack>>

\* buf += sprintf(buf, "%s 0x%lx -- ", libpath, syscall_offset);
mt_sprintf(t) ==
    /\ ~aborted
    /\ thr[t].pc = "sprintf"
    /\ stack' = [stack EXCEPT ![buffer_of(t)] =
                    sprintf_site(thr[t].r.libpath, thr[t].r.syscall_offset)]
    /\ thr' = [thr EXCEPT ![t].pc = "chain"]
    /\ UNCHANGED <<log_fd, kernel, aborted, ncalls, last, issued>>

\* thread t leaves the if-chain with text in its buffer
mt_chain_done(t, text) ==
    \E killed \in (IF Len(text) > BUFFER_SIZE THEN BOOLEAN ELSE {FALSE}) :
      /\ stack' = [stack EXCEPT ![buffer_of(t)] = text]
      /\ aborted' = killed
      /\ thr' = [thr EXCEPT ![t] = [pc |-> "log_test", r |-> thr[t].r,
                                    len |-> Len(text)]]

\* the if-chain and *buf++ = '\n'; len is buf - buffer
mt_chain(t) ==
    /\ ~aborted
    /\ thr[t].pc = "chain"
    /\ mt_chain_done(t, syscall_chain(stack[buffer_of(t)], thr[t].r.nr,
                                      thr[t].r.arg, thr[t].r.result_known,
                                      thr[t].r.result, thr[t].r.junk) \o "\n")
    /\ UNCHANGED <<log_fd, kernel, ncalls, last, issued>>

\* intercept_log: if (log_fd >= 0)
mt_log_test(t) ==
    /\ ~aborted
    /\ thr[t].pc = "log_test"
    /\ IF log_fd >= 0
       THEN thr' = [thr EXCEPT ![t] = [pc |-> "log_write", r |-> thr[t].r,
                                       len |-> thr[t].len, fd |-> log_fd]]
       ELSE thr' = [thr EXCEPT ![t] = Idle]
    /\ UNCHANGED <<log_fd, kernel, aborted, ncalls, last, stack, issued>>

\* the first len bytes of a buffer
buffer_bytes(buf, len) == SubSeq(buf, 1, IF len < Len(buf) THEN len ELSE Len(buf))

\* syscall_no_intercept(SYS_write, log_fd, buffer, len): log_fd is read
\* without synchronisation, so the value passed is the one that was tested
\* or the one log_fd holds now
mt_log_write(t) ==
    /\ ~aborted
    /\ thr[t].pc = "log_write"
    /\ \E fd \in {thr[t].fd, log_fd} :
         LET data == buffer_bytes(stack[buffer_of(t)], thr[t].len)
         IN  /\ kernel' = sys_write(kernel, fd, data)
             /\ last' = [op |-> "intercept_log_syscall", r |-> thr[t].r,
                         pre_fd |-> thr[t].fd,
                         sys |-> <<[call |-> "write", fd |-> fd, data |-> data,
                                    ret |-> sys_write_result(kernel, fd, data)]>>,
                         returned |-> TRUE, overflow |-> FALSE]
    /\ thr' = [thr EXCEPT ![t] = Idle]
    /\ UNCHANGED <<log_fd, aborted, ncalls, stack, issued>>

(***************************************************************************)
(* intercept_log_close and intercept_setup_log, statement by statement, on *)
(* a thread that runs beside the hooks.  log_fd is a plain static int:     *)
(* nothing orders these statements with those of intercept_log.            *)
(***************************************************************************)

\* where thread t goes after the statements of intercept_log_close: back to
\* intercept_setup_log, which called it, or out of the call
mt_after_close(t) ==
    IF thr[t].setup THEN [pc |-> "open", setup |-> TRUE, path |-> thr[t].path,
                          flags |-> thr[t].flags]
    ELSE Idle

\* a thread calls intercept_log_close
mt_close_call(t) ==
    /\ CanCall /\ ncalls < MaxHookCalls
    /\ thr[t].pc = "idle"
    /\ thr' = [thr EXCEPT ![t] = [pc |-> "close_test", setup |-> FALSE,
                                  path |-> "", flags |-> {}]]
    /\ ncalls' = ncalls + 1
    /\ UNCHANGED <<log_fd, kernel, aborted, last, stack, issued>>

\* a thread calls intercept_setup_log with a path that is not NULL and does
\* not end with '-': the call goes on to intercept_log_close
mt_setup_call(t, path_base, trunc) ==
    /\ CanCall /\ ncalls < MaxHookCalls
    /\ thr[t].pc = "idle"
    /\ path_base # NULL
    /\ thr' = [thr EXCEPT ![t] = [pc |-> "close_test", setup |-> TRUE,
                                  path |-> setup_log_path(path_base[1], FALSE),
                                  flags |-> setup_log_flags(trunc)]]
    /\ ncalls' = ncalls + 1
    /\ UNCHANGED <<log_fd, kernel, aborted, last, stack, issued>>

\* intercept_log_close: if (log_fd >= 0)
mt_close_test(t) ==
    /\ ~aborted
    /\ thr[t].pc = "close_test"
    /\ IF log_fd >= 0
       THEN thr' = [thr EXCEPT ![t] = [pc |-> "close_sys", setup |-> thr[t].setup,
                                       path |-> thr[t].path, flags |-> thr[t].flags,
                                       fd |-> log_fd]]
       ELSE thr' = [thr EXCEPT ![t] = mt_after_close(t)]
    /\ UNCHANGED <<log_fd, kernel, aborted, ncalls, last, stack, issued>>

\* syscall_no_intercept(SYS_close, log_fd): the value passed is the one that
\* was tested or the one log_fd holds now
mt_close_sys(t) ==
    /\ ~aborted
    /\ thr[t].pc = "close_sys"
    /\ \E fd \in {thr[t].fd, log_fd} :
         /\ kernel' = sys_close(kernel, fd)
         /\ last' = [op |-> "intercept_log_close", pre_fd |-> thr[t].fd,
                     sys |-> <<[call |-> "close", fd |-> fd,
                                ret |-> sys_close_result(kernel, fd)]>>,
                     returned |-> TRUE]
    /\ thr' = [thr EXCEPT ![t].pc = "close_reset"]
    /\ UNCHANGED <<log_fd, aborted, ncalls, stack, issued>>

\* log_fd = -1;
mt_close_reset(t) ==
    /\ ~aborted
    /\ thr[t].pc = "close_reset"
    /\ log_fd' = -1
    /\ thr' = [thr EXCEPT ![t] = mt_after_close(t)]
    /\ UNCHANGED <<kernel, aborted, ncalls, last, stack, issued>>

\* log_fd = (int)syscall_no_intercept(SYS_open, path, flags, (mode_t)0700);
\* xabort_on_syserror(log_fd, "opening log");
mt_open(t) ==
    /\ ~aborted
    /\ thr[t].pc = "open"
    /\ \E ret \in sys_open_results(kernel, thr[t].path) :
         /\ log_fd' = ret
         /\ kernel' = sys_open(kernel, thr[t].path, thr[t].flags, ret)
         /\ aborted' = setup_log_aborts(ret)
         /\ last' = [op |-> "intercept_setup_log", path_base |-> <<thr[t].path>>,
                     pre_fd |-> log_fd,
                     sys |-> <<[call |-> "open", path |-> thr[t].path,
                                flags |-> thr[t].flags, ret |-> ret]>>,
                     returned |-> ~setup_log_aborts(ret)]
    /\ thr' = [thr EXCEPT ![t] = Idle]
    /\ UNCHANGED <<ncalls, stack, issued>>

(***************************************************************************)
(* Inputs                                                                  *)
(***************************************************************************)

\* the addresses of the objects of Mem
Mapped == {W(4096), W(8192), W(12288), W(16384), W(20480), W(24576), W(32768),
           W(36864), W(40960)}

\* the argument vectors of the invocation records: arg0..arg5
ArgVectors ==
    { [i \in 1..6 |-> SInt(v[i])] : v \in
        { <<7, 4096, 10, 0, 0, 0>>,
          <<8192, 66, 420, 0, 0, 0>>,
          <<-100, 8192, 0, 420, 0, 0>>,
          <<1, 2, 0, 0, 0, 0>>,
          <<0, 0, 0, 0, 0, 0>>,
          <<9, 0, 44, 0, 0, 0>>,
          <<-1, 12288, 9, -1, 16384, -1>>,
          <<8192, 4096, 5, 12288, 16384, 20480>>,
          <<16384, 16384, 300, 16384, 16384, 16384>>,
          <<4096, 4096, 4096, 4096, 4096, 4096>> } }

\* the syscall numbers of the chain's branches, and some it has no branch for
NrKnown == {W(syscall_table[i].nr) : i \in 1..Len(syscall_table)}
              \cup {W(SYS.read), W(SYS.open), W(SYS.getcwd), W(SYS.readlink),
                    W(SYS.exit_group), W(SYS.exit), W(SYS.vfork)}
NrUnknown == {W(9999), W(24), W(27), SInt(-1)}

\* the arguments (1 = arg0) that the branch of nr reads through as a string
\* or a buffer
pointer_args(nr, result_known) ==
    LET hit == {i \in 1..Len(syscall_table) : W(syscall_table[i].nr) = nr}
    IN  CASE nr = W(SYS.read) -> {2}
          [] nr = W(SYS.open) -> {1}
          [] nr = W(SYS.getcwd) -> IF result_known = KNOWN THEN {1} ELSE {}
          [] nr = W(SYS.readlink) -> {1, 2}
          [] OTHER ->
               UNION { LET f == syscall_table[i].fmt
                       IN  {f[j][Len(f[j])] + 1 :
                              j \in {k \in 1..Len(f) : f[k][1] \in {F_STR, F_BUF}}}
                       : i \in hit }

\* the engine passes the arguments of a real syscall: what the kernel reads
\* as a string or a buffer is NULL or readable
Readable(r) ==
    \A i \in pointer_args(r.nr, r.result_known) : r.arg[i] \in Mapped \cup {W(0)}

Results == {SInt(5), SInt(0), SInt(-2)}

\* the branch of nr passes print_syscall fewer (format, argument) pairs than
\* the count it gives: the values read beyond them are not defined
short_of_arguments(nr) ==
    \E i \in 1..Len(syscall_table) :
        /\ W(syscall_table[i].nr) = nr
        /\ syscall_table[i].args > Len(syscall_table[i].fmt)

\* the records rendered one by one; junk, what a read beyond the arguments
\* passed yields, is varied where such a read happens
RenderRecords ==
    { r \in [libpath : {"/lib/libc.so.6"}, nr : NrKnown \cup NrUnknown,
             arg : ArgVectors, syscall_offset : {W(896674)},
             result_known : {KNOWN, UNKNOWN}, result : Results,
             junk : {W(0), W(77)}] :
        Readable(r) /\ (r.junk = W(0) \/ short_of_arguments(r.nr)) }

\* a string or a buffer of the call of r is NULL
HasNullSource(r) ==
    \E i \in pointer_args(r.nr, r.result_known) : r.arg[i] = W(0)

\* the records of the calls with a NULL string or buffer
NullRecords == {r \in RenderRecords : HasNullSource(r)}

\* how many lengths of the site label, counted down from the longest path
\* (PATH_MAX - 1 characters), the long-label runs try
SiteLabels == 40

RECURSIVE Rep(_, _)
\* the string s repeated n times
Rep(s, n) ==
    IF n = 0 THEN ""
    ELSE IF n % 2 = 1 THEN Rep(s, n - 1) \o s
    ELSE Rep(s \o s, n \div 2)

\* the records of the long-label runs: libpath is the path of a library
SiteRecords ==
    { [libpath |-> "/" \o Rep("a", PATH_MAX - 1 - d), nr |-> SInt(n),
       arg |-> [i \in 1..6 |-> SInt(v[i])], syscall_offset |-> W(896674),
       result_known |-> KNOWN, result |-> SInt(5), junk |-> W(0)] :
      d \in 1..SiteLabels, n \in {0, 39, 9999}, v \in {<<7, 4096, 10, 0, 0, 0>>} }

\* the records of the runs of several calls
SeqRecords ==
    { [libpath |-> "libc", nr |-> SInt(n), arg |-> [i \in 1..6 |-> SInt(v[i])],
       syscall_offset |-> W(1), result_known |-> k, result |-> SInt(5),
       junk |-> W(0)] :
      n \in {0, 231, 9999}, v \in {<<7, 4096, 10, 0, 0, 0>>}, k \in {KNOWN, UNKNOWN} }

\* the records of the calls the hooks make on several threads
HookRecords == {r \in SeqRecords : r.result_known = KNOWN /\ r.nr # W(SYS.read)}

\* the largest of the small counts given to xprint_escape
MaxCount == 6

\* the arguments of the calls of xprint_escape by itself: the sources (NULL
\* among them), the capacities (the one print_syscall gives and small ones,
\* two of them just enough for the short strings of Mem) and the counts
\* (small ones and two beyond every capacity)
EscapeSources == Mapped \cup {W(0)}
EscapeSizes == {11, 12, 32, ESCAPE_DST_SIZE}
EscapeCounts == {W(n) : n \in 0..MaxCount} \cup {W(200), W(300)}

\* the arguments of the calls of print_number by itself: values at and
\* around the powers 2^31, 3^31 and 4^31 (the first values of 32 digits in
\* the bases 2, 3 and 4), every base the assertion admits from 2 on, and
\* widths at and around the clamp
NumberValues ==
    {W(0), W(1), W(9), W(255), W(4096),
     <<0, 0, Limb \div 2 - 1, Limb - 1>>, <<0, 0, Limb \div 2, 0>>,
     <<2, 12741, 19295, 27178>>, <<2, 12741, 19295, 27179>>,
     <<Limb \div 4 - 1, Limb - 1, Limb - 1, Limb - 1>>, <<Limb \div 4, 0, 0, 0>>,
     <<Limb - 1, Limb - 1, Limb - 1, Limb - 1>>}
NumberBases == 2..(Len(digit_chars))
NumberWidths == {0, 1, 2, 16, DigitsSize - 3, DigitsSize - 2, DigitsSize - 1,
                 DigitsSize, DigitsSize + 8}

\* the arguments of the calls of print_flag_set by itself: the masks made of
\* some bits, the two bits of O_SYNC and a bit of no entry among them, and
\* the two tables of the module
FlagBits == {6, 9, 10, 12, 20, 30, 63}
FlagMasks == SUBSET FlagBits
FlagTables == {open_flags, clone_flags}

\* the flags of the calls of print_open_flags by itself: the two bits of the
\* access mode and some of the other flags
OpenFlagBits == O_WRONLY_BITS \cup O_RDWR_BITS \cup O_CREAT_BITS \cup {10, 12, 20}
OpenFlagMasks == SUBSET OpenFlagBits

PathBases == {NULL, <<"log">>, <<"log-">>, <<"">>}
Truncs == {NULL, <<"0">>}
RawBuffers == {"raw", "x\n"}

(***************************************************************************)
(* Specifications                                                          *)
(***************************************************************************)

SetupLog == \E path_base \in PathBases, trunc \in Truncs :
                intercept_setup_log(path_base, trunc)
LogClose == intercept_log_close
Log == \E buffer \in RawBuffers : intercept_log(buffer)
LogSyscall == \E r \in SeqRecords : intercept_log_syscall(r)

\* the module's functions called one after another, in any order
Next == SetupLog \/ LogClose \/ Log \/ LogSyscall

Spec == Init /\ [][Next]_vars

\* one call of intercept_log_syscall for each record, on a sink that was set
\* up or not
RenderSetup == last.op = "none" /\ intercept_setup_log(<<"log">>, NULL)
RenderCall == \E r \in RenderRecords :
                 last.op # "intercept_log_syscall" /\ intercept_log_syscall(r)
NextRender == RenderSetup \/ RenderCall

SpecRender == Init /\ [][NextRender]_vars

\* xprint_escape called by itself, once, on any source, in both modes, or
\* by print_syscall for the line of a call with a NULL string or buffer
EscapeCall == \E src \in EscapeSources, dst_size \in EscapeSizes,
                 zero_term \in BOOLEAN, src_size \in EscapeCounts :
                 /\ last.op = "none"
                 /\ xprint_escape_call(src, dst_size, zero_term, src_size)
EscapeSetup == last.op = "none" /\ intercept_setup_log(<<"log">>, NULL)
EscapeLine == \E r \in NullRecords :
                 last.op = "intercept_setup_log" /\ intercept_log_syscall(r)
NextEscape == EscapeCall \/ EscapeSetup \/ EscapeLine

SpecEscape == Init /\ [][NextEscape]_vars

\* print_number called by itself, once
NumberCall == \E n \in NumberValues, base \in NumberBases, width \in NumberWidths :
                 last.op = "none" /\ print_number_call(n, base, width)
NextNumber == NumberCall

SpecNumber == Init /\ [][NextNumber]_vars

\* print_flag_set called by itself, once
FlagSetCall == \E flags \in FlagMasks, desc \in FlagTables :
                  last.op = "none" /\ print_flag_set_call(flags, desc)
\* print_open_flags called by itself, once
OpenFlagsCall == \E flags \in OpenFlagMasks :
                    last.op = "none" /\ print_open_flags_call(flags)
NextFlags == FlagSetCall \/ OpenFlagsCall

SpecFlags == Init /\ [][NextFlags]_vars

\* one call of intercept_log_syscall from a library with a long path
SiteSetup == last.op = "none" /\ intercept_setup_log(<<"log">>, NULL)
SiteCall == \E r \in SiteRecords :
               last.op # "intercept_log_syscall" /\ intercept_log_syscall(r)
NextSite == SiteSetup \/ SiteCall

SpecSite == Init /\ [][NextSite]_vars

\* hooks on several threads between a single-threaded set-up and tear-down;
\* the log is opened without truncation
MTSetup == \E path_base \in {<<"log">>, <<"log-">>} :
              intercept_setup_log(path_base, <<"0">>)
MTClose == intercept_log_close
MTCall == \E t \in Threads, r \in HookRecords : mt_call(t, r)
MTEntry == \E t \in Threads : mt_entry(t)
MTSprintf == \E t \in Threads : mt_sprintf(t)
MTChain == \E t \in Threads : mt_chain(t)
MTLogTest == \E t \in Threads : mt_log_test(t)
MTLogWrite == \E t \in Threads : mt_log_write(t)
NextMT == MTSetup \/ MTClose \/ MTCall \/ MTEntry \/ MTSprintf \/ MTChain
          \/ MTLogTest \/ MTLogWrite

SpecMT == Init /\ [][NextMT]_vars

\* hooks on one thread beside intercept_setup_log and intercept_log_close
\* on another, with no order between them
RaceCloseCall == \E t \in Threads : mt_close_call(t)
RaceSetupCall == \E t \in Threads : mt_setup_call(t, <<"log">>, <<"0">>)
RaceCloseTest == \E t \in Threads : mt_close_test(t)
RaceCloseSys == \E t \in Threads : mt_close_sys(t)
RaceCloseReset == \E t \in Threads : mt_close_reset(t)
RaceOpen == \E t \in Threads : mt_open(t)
NextRace == MTCall \/ MTEntry \/ MTSprintf \/ MTChain \/ MTLogTest
            \/ MTLogWrite \/ RaceCloseCall \/ RaceSetupCall \/ RaceCloseTest
            \/ RaceCloseSys \/ RaceCloseReset \/ RaceOpen

SpecRace == Init /\ [][NextRace]_vars

(***************************************************************************)
(* Properties                                                              *)
(***************************************************************************)

StartsWith(s, p) == Len(s) >= Len(p) /\ SubSeq(s, 1, Len(p)) = p

EndsWith(s, t) == Len(s) >= Len(t) /\ SubSeq(s, Len(s) - Len(t) + 1, Len(s)) = t

\* s is one line: it ends with a newline and holds no other one
IsLine(s) ==
    /\ EndsWith(s, "\n")
    /\ \A i \in 1..(Len(s) - 1) : SubSeq(s, i, i) # "\n"

\* how often x occurs in the sequence q
Count(q, x) == Cardinality({i \in 1..Len(q) : q[i] = x})

\* the sequences a and b hold the same elements, each as often
SameBag(a, b) ==
    /\ Len(a) = Len(b)
    /\ \A i \in 1..Len(a) : Count(a, a[i]) = Count(b, a[i])

\* reference renderings, written apart from the encoders of the model
RECURSIVE RefHexNat(_)
RefHexNat(n) ==
    IF n < 16 THEN SubSeq("0123456789abcdef", n + 1, n + 1)
    ELSE RefHexNat(n \div 16) \o RefHexNat(n % 16)

\* the four hex digits of one limb
RefHexLimb(n) ==
    RefHexNat(n \div 4096) \o RefHexNat((n \div 256) % 16)
        \o RefHexNat((n \div 16) % 16) \o RefHexNat(n % 16)

\* a 64-bit value in lower-case hex of minimal width
RefHex(w) ==
    IF w[1] # 0 THEN RefHexNat(w[1]) \o RefHexLimb(w[2]) \o RefHexLimb(w[3])
                     \o RefHexLimb(w[4])
    ELSE IF w[2] # 0 THEN RefHexNat(w[2]) \o RefHexLimb(w[3]) \o RefHexLimb(w[4])
    ELSE IF w[3] # 0 THEN RefHexNat(w[3]) \o RefHexLimb(w[4])
    ELSE RefHexNat(w[4])

RECURSIVE RefDecNat(_)
RefDecNat(n) ==
    IF n < 10 THEN SubSeq("0123456789", n + 1, n + 1)
    ELSE RefDecNat(n \div 10) \o RefDecNat(n % 10)

\* a 64-bit value of magnitude below 2^31 in signed decimal
RefDec(w) ==
    IF w[1] = 0 THEN RefDecNat(w[3] * Limb + w[4])
    ELSE "-" \o RefDecNat((Limb - 1 - w[3]) * Limb + (Limb - w[4]))

\* the site prefix and the result segment of the line of record r
RefSite(r) == r.libpath \o " 0x" \o RefHex(r.syscall_offset) \o " -- "
RefResult(r) ==
    ") = " \o (IF r.result_known = KNOWN THEN RefDec(r.result) ELSE "?") \o "\n"

\* the call made last was intercept_log_syscall and it issued one write
Rendered == last.op = "intercept_log_syscall" /\ Len(last.sys) = 1

\* C1: while the sink is open, every call of intercept_log_syscall issues
\* exactly one write on log_fd, the bytes written are one newline-terminated
\* line, and the file behind log_fd grows by exactly that line while every
\* other file and the descriptors stay as they were.
C1_OneLinePerCall ==
    [][ (last'.op = "intercept_log_syscall" /\ ncalls' = ncalls + 1 /\ log_fd >= 0)
        => /\ Len(last'.sys) = 1
           /\ last'.sys[1].call = "write"
           /\ last'.sys[1].fd = log_fd
           /\ IsLine(last'.sys[1].data)
           /\ last'.sys[1].ret = Len(last'.sys[1].data)
           /\ kernel'.fds = kernel.fds
           /\ \A p \in Paths :
                kernel'.files[p] =
                    IF p = kernel.fds[log_fd]
                    THEN Append(kernel.files[p], last'.sys[1].data)
                    ELSE kernel.files[p] ]_vars

\* two calls of intercept_log_syscall in a row wrote two lines to the log
C1_Witness ==
    /\ last.op = "intercept_log_syscall"
    /\ last.pre_fd >= 0
    /\ \E p \in Paths : Len(kernel.files[p]) = 2 /\ IsLine(kernel.files[p][2])

\* C2: for every syscall number and either result marker the line is
\* "<site-label> 0x<offset-hex> -- <name>(<args>) = <R>" and a newline, R
\* being "?" for UNKNOWN and the signed-decimal result for KNOWN; exit,
\* exit_group and vfork have the result segment too.
C2_ResultSegment ==
    Rendered => /\ StartsWith(last.sys[1].data, RefSite(last.r))
                /\ EndsWith(last.sys[1].data, RefResult(last.r))

\* C3: the rendered line with its newline occupies at most sizeof(buffer)
\* bytes, whatever the length of the site label.
C3_LineFitsBuffer ==
    last.op = "intercept_log_syscall"
        => /\ ~last.overflow
           /\ \A i \in 1..Len(last.sys) : Len(last.sys[i].data) <= BUFFER_SIZE

\* C4: the sink is CLOSED (log_fd = -1) or OPEN (log_fd an open descriptor);
\* CLOSED initially and after every return of intercept_log_close, OPEN after
\* every return of intercept_setup_log with a non-NULL path; intercept_log
\* and intercept_log_syscall leave log_fd as it was; intercept_log_close on a
\* CLOSED sink issues no kernel call.
C4_SinkLifecycle ==
    /\ ~aborted => (log_fd = -1 \/ log_fd \in DOMAIN kernel.fds)
    /\ last.op = "none" => log_fd = -1
    /\ last.op = "intercept_log_close"
         => /\ last.returned /\ log_fd = -1
            /\ last.pre_fd < 0 => last.sys = <<>>
    /\ (last.op = "intercept_setup_log" /\ last.path_base # NULL /\ last.returned)
         => log_fd \in DOMAIN kernel.fds
    /\ (last.op = "intercept_setup_log" /\ last.path_base = NULL)
         => log_fd = last.pre_fd /\ last.sys = <<>>
    /\ last.op \in {"intercept_log", "intercept_log_syscall"}
         => log_fd = last.pre_fd

\* intercept_log_close was called on a sink that was CLOSED already, after
\* two other calls
C4_Witness ==
    /\ last.op = "intercept_log_close"
    /\ last.pre_fd < 0
    /\ ncalls = 3

\* C5: intercept_setup_log with a non-NULL path closes the open descriptor
\* before it issues the open; the only open descriptor is log_fd (none is
\* leaked, at most one is open), and no close is issued on a descriptor that
\* is not open.
C5_CloseBeforeOpen ==
    /\ DOMAIN kernel.fds = (IF log_fd >= 0 THEN {log_fd} ELSE {})
    /\ \A i \in 1..Len(last.sys) :
         last.sys[i].call = "close" => last.sys[i].ret = 0
    /\ (last.op = "intercept_setup_log" /\ last.path_base # NULL)
         => IF last.pre_fd >= 0
            THEN /\ Len(last.sys) = 2
                 /\ last.sys[1] = [call |-> "close", fd |-> last.pre_fd, ret |-> 0]
                 /\ last.sys[2].call = "open"
            ELSE /\ Len(last.sys) = 1
                 /\ last.sys[1].call = "open"

\* intercept_setup_log was called on an OPEN sink and opened the log anew
C5_Witness ==
    /\ last.op = "intercept_setup_log"
    /\ last.pre_fd >= 0
    /\ log_fd >= 0

\* C6: on a CLOSED sink intercept_log and intercept_log_syscall issue no
\* kernel call, do not abort, return, and leave the sink CLOSED.
C6_ClosedSinkNoOp ==
    (last.op \in {"intercept_log", "intercept_log_syscall"} /\ last.pre_fd < 0)
        => /\ last.sys = <<>>
           /\ ~aborted
           /\ last.returned
           /\ log_fd = -1
           /\ DOMAIN kernel.fds = {}

\* intercept_log_syscall was called on a CLOSED sink after the log was used
C6_Witness ==
    /\ last.op = "intercept_log_syscall"
    /\ last.pre_fd < 0
    /\ \E p \in Paths : kernel.files[p] # <<>>

\* C7: intercept_setup_log with a non-NULL path returns only with the sink
\* OPEN; when the open returns an error the process is aborted and the call
\* does not return, also when the call had closed an open descriptor.
C7_SetupOpensOrAborts ==
    (last.op = "intercept_setup_log" /\ last.path_base # NULL)
        => /\ last.returned => (log_fd >= 0 /\ log_fd \in DOMAIN kernel.fds)
           /\ last.sys[Len(last.sys)].ret < 0 => (aborted /\ ~last.returned)

\* the open of a call that had closed the open descriptor failed
C7_Witness ==
    /\ last.op = "intercept_setup_log"
    /\ last.path_base # NULL
    /\ last.pre_fd >= 0
    /\ last.sys[Len(last.sys)].ret < 0
    /\ aborted

\* the lines of the calls that found the sink open on the file path, in the
\* order the calls were made
IssuedLines(path) ==
    LET OnPath(e) == e.path = path
        on == SelectSeq(issued, OnPath)
    IN  [i \in 1..Len(on) |-> syscall_line(on[i].r)]

\* C8: for any interleaving of calls of intercept_log_syscall on several
\* threads while the sink stays open, every write to the log is the whole
\* line of one of the calls, and once the calls have returned the log holds
\* the lines the same calls produce one after another, in some order.
C8_LogIsPermutation ==
    \A p \in Paths :
        /\ \A i \in 1..Len(kernel.files[p]) :
             \E j \in 1..Len(issued) :
                /\ issued[j].path = p
                /\ kernel.files[p][i] = syscall_line(issued[j].r)
        /\ AllIdle => SameBag(kernel.files[p], IssuedLines(p))

\* two calls overlapped: the one that started later wrote its line first
C8_Witness ==
    /\ AllIdle
    /\ Len(issued) = 2
    /\ \E p \in Paths :
         /\ Len(kernel.files[p]) = 2
         /\ kernel.files[p][1] = syscall_line(issued[2].r)
         /\ kernel.files[p][1] # syscall_line(issued[1].r)

\* the line of the generic rendering of record r
RefGeneric(r) ==
    RefSite(r) \o "syscall(" \o RefDec(r.nr)
        \o ", 0x" \o RefHex(r.arg[1]) \o ", 0x" \o RefHex(r.arg[2])
        \o ", 0x" \o RefHex(r.arg[3]) \o ", 0x" \o RefHex(r.arg[4])
        \o ", 0x" \o RefHex(r.arg[5]) \o ", 0x" \o RefHex(r.arg[6])
        \o RefResult(r)

\* C9: a syscall number with no branch in the chain is rendered as
\* "syscall", the number in signed decimal, the six raw arguments each as
\* 0x and lower-case hex of minimal width, and the result segment; number
\* 9999 with arguments (1,2,0,0,0,0) and an UNKNOWN result gives
\* "syscall(9999, 0x1, 0x2, 0x0, 0x0, 0x0, 0x0) = ?".
C9_GenericRendering ==
    (Rendered /\ last.r.nr \in NrUnknown)
        => /\ last.sys[1].data = RefGeneric(last.r)
           /\ (/\ last.r.nr = W(9999)
               /\ last.r.arg = [i \in 1..6 |-> SInt(<<1, 2, 0, 0, 0, 0>>[i])]
               /\ last.r.result_known = UNKNOWN)
                => last.sys[1].data =
                     "/lib/libc.so.6 0xdaea2 -- "
                        \o "syscall(9999, 0x1, 0x2, 0x0, 0x0, 0x0, 0x0) = ?\n"

\* number 9999 with arguments (1,2,0,0,0,0) and an UNKNOWN result was rendered
C9_Witness ==
    /\ Rendered
    /\ last.r.nr = W(9999)
    /\ last.r.result_known = UNKNOWN
    /\ EndsWith(last.sys[1].data,
                " -- syscall(9999, 0x1, 0x2, 0x0, 0x0, 0x0, 0x0) = ?\n")

\* the bytes of the destination buffer that are to be printed
RefPrintSize(r) ==
    IF r.result_known = KNOWN /\ ~WIsNeg(r.result) THEN r.result ELSE W(0)

\* C10: read and readlink render the destination buffer as a counted buffer
\* of exactly result bytes when the result is KNOWN and not negative, and of
\* no bytes otherwise, whatever the count asked for; read(7, buf, 10) with
\* KNOWN result 5 and the bytes abcde gives read(7, "abcde", 10) = 5.
C10_ReadBufferByResult ==
    /\ (Rendered /\ last.r.nr = W(SYS.read))
         => /\ last.sys[1].data =
                 RefSite(last.r) \o "read(" \o RefDec(last.r.arg[1]) \o ", "
                    \o xprint_escape("", last.r.arg[2], ESCAPE_DST_SIZE, FALSE,
                                     RefPrintSize(last.r))
                    \o ", " \o RefDec(last.r.arg[3]) \o RefResult(last.r)
            /\ (/\ last.r.arg[1] = W(7) /\ last.r.arg[2] = W(4096)
                /\ last.r.arg[3] = W(10)
                /\ last.r.result_known = KNOWN /\ last.r.result = W(5))
                 => last.sys[1].data
                      = "/lib/libc.so.6 0xdaea2 -- read(7, \"abcde\", 10) = 5\n"
            /\ (last.r.arg[2] = W(4096) /\ RefPrintSize(last.r) = W(0))
                 => last.sys[1].data =
                      RefSite(last.r) \o "read(" \o RefDec(last.r.arg[1])
                         \o ", \"\", " \o RefDec(last.r.arg[3]) \o RefResult(last.r)
    /\ (Rendered /\ last.r.nr = W(SYS.readlink))
         => last.sys[1].data =
              RefSite(last.r) \o "readlink("
                 \o xprint_escape("", last.r.arg[1], ESCAPE_DST_SIZE, TRUE, W(0))
                 \o ", "
                 \o xprint_escape("", last.r.arg[2], ESCAPE_DST_SIZE, FALSE,
                                  RefPrintSize(last.r))
                 \o ", " \o RefDec(last.r.arg[3]) \o RefResult(last.r)

\* read(7, buf, 10) that returned 5 was rendered with the five bytes abcde
C10_Witness ==
    /\ Rendered
    /\ last.r.nr = W(SYS.read)
    /\ last.r.arg[3] = W(10)
    /\ last.r.result = W(5)
    /\ EndsWith(last.sys[1].data, " -- read(7, \"abcde\", 10) = 5\n")

\* C11: pread64 renders the destination buffer as a counted buffer of result
\* bytes when the result is KNOWN and not negative, and as an empty buffer
\* otherwise: no byte of the destination appears in the line of a call whose
\* result is UNKNOWN or negative.
C11_PreadBufferByResult ==
    (Rendered /\ last.r.nr = W(17))
        => last.sys[1].data =
             RefSite(last.r) \o "pread64(" \o RefDec(last.r.arg[1]) \o ", "
                \o xprint_escape("", last.r.arg[2], ESCAPE_DST_SIZE, FALSE,
                                 RefPrintSize(last.r))
                \o ", " \o RefDec(last.r.arg[3])
                \o ", " \o RefDec(last.r.arg[4]) \o RefResult(last.r)

\* the line of a call name(fd, buffer of size bytes, count, rest) of record r
RefCountedCall(r, name, size, rest) ==
    RefSite(r) \o name \o "(" \o RefDec(r.arg[1]) \o ", "
        \o xprint_escape("", r.arg[2], ESCAPE_DST_SIZE, FALSE, size)
        \o ", " \o RefDec(r.arg[3]) \o rest \o RefResult(r)

\* C12: write and pwrite64 render the source buffer as a counted buffer of
\* count (arg2) bytes, whatever the result and the result marker.
C12_WriteBufferByCount ==
    /\ (Rendered /\ last.r.nr = W(1))
         => last.sys[1].data = RefCountedCall(last.r, "write", last.r.arg[3], "")
    /\ (Rendered /\ last.r.nr = W(18))
         => last.sys[1].data =
              RefCountedCall(last.r, "pwrite64", last.r.arg[3],
                             ", " \o RefDec(last.r.arg[4]))

\* write(7, buf, 10) that failed with -2 was rendered with the ten bytes
C12_Witness ==
    /\ Rendered
    /\ last.r.nr = W(1)
    /\ last.r.result_known = KNOWN
    /\ last.r.result = SInt(-2)
    /\ EndsWith(last.sys[1].data,
                " -- write(7, \"abcde\\0\\0\\0\\0\\0\", 10) = -2\n")

\* the flags and, when O_CREAT is among them, the mode of an open call
RefFlagsAndMode(flags, mode) ==
    print_open_flags("", WBits(WToInt(flags)))
        \o (IF O_CREAT_BITS \subseteq WBits(flags)
            THEN ", " \o print_number("0", mode, 8, 1) ELSE "")

\* C13: open and openat have the mode in the argument list exactly when
\* O_CREAT is set in the flags; without O_CREAT the line has no mode.
C13_ModeOnlyWithCreat ==
    /\ (Rendered /\ last.r.nr = W(SYS.open))
         => last.sys[1].data =
              RefSite(last.r) \o "open("
                 \o xprint_escape("", last.r.arg[1], ESCAPE_DST_SIZE, TRUE, W(0))
                 \o ", " \o RefFlagsAndMode(last.r.arg[2], last.r.arg[3])
                 \o RefResult(last.r)
    /\ (Rendered /\ last.r.nr = W(257))
         => last.sys[1].data =
              RefSite(last.r) \o "openat(" \o print_atfd("", last.r.arg[1]) \o ", "
                 \o xprint_escape("", last.r.arg[2], ESCAPE_DST_SIZE, TRUE, W(0))
                 \o ", " \o RefFlagsAndMode(last.r.arg[3], last.r.arg[4])
                 \o RefResult(last.r)

\* the branch the chain takes for the record of the call made last
LastBranch ==
    syscall_branch(last.r.nr, last.r.arg, last.r.result_known, last.r.result)

\* the slot print_syscall reads the result marker from, the branch being br
MarkerSlot(br, junk) ==
    print_syscall_loop("", br.args, br.ap, 1, TRUE, junk).k

\* C14: for every recognized syscall number the count given to print_syscall
\* is the number of (format, argument) pairs that follow it: print_syscall
\* reads the result marker and the result from the two slots that hold them,
\* the last two, and the line ends with the result segment of the record.
C14_ArityMatchesPairs ==
    (Rendered /\ last.r.nr \in NrKnown /\ ~LastBranch.direct)
        => /\ MarkerSlot(LastBranch, last.r.junk) = Len(LastBranch.ap) - 1
           /\ EndsWith(last.sys[1].data, RefResult(last.r))

\* the *at syscalls whose first argument is the directory descriptor, and
\* two syscalls whose first argument is a plain descriptor
RefAtCalls ==
    { <<257, "openat">>, <<258, "mkdirat">>, <<259, "mknodat">>,
      <<260, "fchownat">>, <<261, "futimesat">>, <<262, "newfstatat">>,
      <<263, "unlinkat">>, <<264, "renameat">>, <<265, "linkat">>,
      <<267, "readlinkat">>, <<268, "fchmodat">>, <<269, "faccessat">>,
      <<280, "utimensat">> }
RefFdCalls == { <<5, "fstat">>, <<8, "lseek">> }

\* C15: AT_FDCWD is rendered as "AT_FDCWD" when it is the directory
\* descriptor of an *at syscall and as -100 when it is a plain descriptor;
\* any other value is rendered by print_atfd as print_fd renders it.
C15_AtFdcwdOnlyForAtCalls ==
    Rendered =>
      /\ \A c \in RefAtCalls :
           last.r.nr = W(c[1]) =>
             StartsWith(last.sys[1].data,
                        RefSite(last.r) \o c[2] \o "("
                           \o (IF last.r.arg[1] = SInt(-100) THEN "AT_FDCWD"
                               ELSE RefDec(last.r.arg[1])))
      /\ \A c \in RefFdCalls :
           last.r.nr = W(c[1]) =>
             StartsWith(last.sys[1].data,
                        RefSite(last.r) \o c[2] \o "(" \o RefDec(last.r.arg[1]))
      /\ \A i \in 1..6 :
           last.r.arg[i] # SInt(-100)
             => print_atfd("", last.r.arg[i]) = print_fd("", last.r.arg[i])

\* the index of the first zero byte of src
RefStrlen(src) ==
    LET zeros == {i \in 0..Len(Mem(src)) : MemByte(src, i) = 0}
    IN  CHOOSE i \in zeros : \A j \in zeros : i <= j

\* how many bytes of its source the xprint_escape call made last is to
\* render: those before the first zero byte, or src_size
RefSourceLen ==
    IF last.zero_term THEN RefStrlen(last.src)
    ELSE last.src_size[3] * Limb + last.src_size[4]

\* the first n of these bytes
RefSourceBytes(n) == [i \in 1..n |-> MemByte(last.src, i - 1)]

\* C16: xprint_escape writes at most dst_size bytes, the terminator
\* included; the closing quote is always written; a source longer than the
\* capacity gives a text that ends with the ellipsis and the closing quote.
C16_EscapeWithinCapacity ==
    (last.op = "xprint_escape" /\ last.src # W(0))
        => /\ Len(last.out) + 1 <= last.dst_size
           /\ EndsWith(last.out, "\"")
           /\ RefSourceLen > last.dst_size => EndsWith(last.out, "...\"")

RECURSIVE RefText(_)
\* the characters of a sequence of printable bytes
RefText(bytes) ==
    IF Len(bytes) = 0 THEN ""
    ELSE IF Len(bytes) = 1 THEN Chr(bytes[1])
    ELSE RefText(SubSeq(bytes, 1, Len(bytes) \div 2))
            \o RefText(SubSeq(bytes, Len(bytes) \div 2 + 1, Len(bytes)))

\* the call made last was xprint_escape in zero-terminated mode on a source
\* of printable bytes only
PrintableSource ==
    /\ last.op = "xprint_escape"
    /\ last.src # W(0)
    /\ last.zero_term
    /\ \A i \in 1..RefSourceLen : isprint(MemByte(last.src, i - 1))

\* no byte of the source is a quote or a backslash
PlainSource == \A i \in 1..RefSourceLen : MemByte(last.src, i - 1) \notin {34, 92}

\* C17 as stated: every zero-terminated source of printable bytes is
\* rendered as a quote, the bytes unchanged and a quote.
C17_PrintableVerbatimAlways ==
    PrintableSource => last.out = "\"" \o RefText(RefSourceBytes(RefSourceLen)) \o "\""

\* C17, amended: a zero-terminated source of printable bytes other than the
\* quote and the backslash is rendered as a quote, the bytes unchanged and a
\* quote when it has at most dst_size - 6 bytes; a longer one is rendered as
\* a quote, its first dst_size - 6 bytes, the ellipsis and a quote.
C17_PlainFittingVerbatim ==
    (PrintableSource /\ PlainSource)
        => last.out =
             IF RefSourceLen <= last.dst_size - 6
             THEN "\"" \o RefText(RefSourceBytes(RefSourceLen)) \o "\""
             ELSE "\"" \o RefText(RefSourceBytes(last.dst_size - 6)) \o "...\""

\* the six bytes of /tmp/x were rendered with the smallest capacity that
\* holds them
C17_Witness ==
    /\ PrintableSource
    /\ PlainSource
    /\ RefSourceLen = last.dst_size - 6
    /\ last.out = "\"/tmp/x\""

\* the text t occurs in s
Contains(s, t) ==
    \E i \in 1..(Len(s) - Len(t) + 1) : SubSeq(s, i, i + Len(t) - 1) = t

\* C18: a NULL source given to xprint_escape renders exactly (null) with no
\* quotes, in the zero-terminated and in the counted mode and for every
\* count (Mem has no object at NULL: a read of the source would have no
\* value); the line of a call with a NULL string or buffer is one well-formed
\* line with (null) in the place of the argument, as for read(9, NULL, 44),
\* open(NULL, ...) and stat(NULL, NULL), and the process is not aborted.
C18_NullSourceRendersNull ==
    /\ (last.op = "xprint_escape" /\ last.src = W(0)) => last.out = "(null)"
    /\ (Rendered /\ HasNullSource(last.r))
         => /\ ~aborted
            /\ last.returned
            /\ IsLine(last.sys[1].data)
            /\ StartsWith(last.sys[1].data, RefSite(last.r))
            /\ Contains(last.sys[1].data, "(null)")
            /\ ~Contains(last.sys[1].data, "\"(null)")
            /\ last.r.nr = W(SYS.read)
                 => last.sys[1].data =
                      RefSite(last.r) \o "read(" \o RefDec(last.r.arg[1])
                         \o ", (null), " \o RefDec(last.r.arg[3])
                         \o RefResult(last.r)
            /\ last.r.nr = W(SYS.open)
                 => last.sys[1].data =
                      RefSite(last.r) \o "open((null), "
                         \o RefFlagsAndMode(last.r.arg[2], last.r.arg[3])
                         \o RefResult(last.r)
            /\ last.r.nr = W(4)
                 => last.sys[1].data =
                      RefSite(last.r) \o "stat((null), 0x" \o RefHex(last.r.arg[2])
                         \o RefResult(last.r)

\* read(9, NULL, 44) was rendered with (null) for the buffer
C18_Witness ==
    /\ Rendered
    /\ last.r.nr = W(SYS.read)
    /\ last.r.arg[2] = W(0)
    /\ last.r.result_known = KNOWN
    /\ last.sys[1].data = "/lib/libc.so.6 0xdaea2 -- read(9, (null), 44) = 5\n"

\* w * b + d modulo 2^64, for a small factor b and a digit d
RefMulAdd(w, b, d) ==
    LET t4 == w[4] * b + d
        t3 == w[3] * b + t4 \div Limb
        t2 == w[2] * b + t3 \div Limb
        t1 == w[1] * b + t2 \div Limb
    IN  <<t1 % Limb, t2 % Limb, t3 % Limb, t4 % Limb>>

\* the value of the digit character c
RefDigit(c) == CHOOSE d \in 0..15 : SubSeq("0123456789abcdef", d + 1, d + 1) = c

RECURSIVE RefParseInto(_, _, _)
\* the value of the digits of s appended to a number of value acc
RefParseInto(acc, s, b) ==
    IF acc[1] >= 0 /\ s = "" THEN acc
    ELSE RefParseInto(RefMulAdd(acc, b, RefDigit(SubSeq(s, 1, 1))),
                      SubSeq(s, 2, Len(s)), b)

RECURSIVE RefParse(_, _)
\* the value of the text s read as a number of base b, eight digits at a time
RefParse(s, b) ==
    IF Len(s) <= 8 THEN RefParseInto(<<0, 0, 0, 0>>, s, b)
    ELSE RefParseInto(RefParse(SubSeq(s, 1, Len(s) - 8), b),
                      SubSeq(s, Len(s) - 7, Len(s)), b)

\* s is made of lower-case digits of base b, one at least
RefIsNumeral(s, b) ==
    /\ Len(s) >= 1
    /\ \A i \in 1..Len(s) :
         \E d \in 0..(b - 1) : SubSeq("0123456789abcdef", d + 1, d + 1) = SubSeq(s, i, i)

\* C19: for every base from 2 to 16, every 64-bit value v and every minimum
\* width w, the text print_number(v, b, w) produces is made of lower-case
\* digits of base b, parses back to v and has at least w characters.
C19_NumberRoundTrip ==
    last.op = "print_number"
        => /\ last.returned
           /\ RefIsNumeral(last.out, last.base)
           /\ RefParse(last.out, last.base) = last.n
           /\ Len(last.out) >= last.width

RECURSIVE RefFlagNames(_, _, _)
\* the names of the entries desc[i..] whose bits are all in the mask left by
\* the entries before them, and the bits no entry took
RefFlagNames(flags, desc, i) ==
    IF i > Len(desc) THEN [names |-> <<>>, flags |-> flags]
    ELSE IF desc[i].flag \subseteq flags
         THEN LET r == RefFlagNames(flags \ desc[i].flag, desc, i + 1)
              IN  [names |-> <<desc[i].printable_name>> \o r.names, flags |-> r.flags]
         ELSE RefFlagNames(flags, desc, i + 1)

RECURSIVE RefJoin(_)
\* the texts of q joined by " | "
RefJoin(q) ==
    IF Len(q) = 0 THEN "0"
    ELSE IF Len(q) = 1 THEN q[1]
    ELSE q[1] \o " | " \o RefJoin(Tail(q))

\* the names of the entries contained in the mask and the hex remainder
RefFlagSet(flags, desc) ==
    LET r == RefFlagNames(flags, desc, 1)
    IN  RefJoin(r.names \o (IF r.flags = {} THEN <<>>
                            ELSE <<"0x" \o RefHex(BitsW(r.flags))>>))

\* the name of entry i of the table is among the names of the text out
RefNamed(out, desc, i) ==
    Contains(" | " \o out \o " | ", " | " \o desc[i].printable_name \o " | ")

\* C20: print_flag_set appends the name of an entry only when all bits of
\* the entry are in the remaining mask and then clears those bits, so no
\* name printed carries a bit that is not set in the mask given, the
\* entries of several bits (O_SYNC, O_RSYNC) included.
C20_NamesWithinMask ==
    last.op = "print_flag_set"
        => /\ last.out = RefFlagSet(last.flags, last.desc)
           /\ \A i \in 1..Len(last.desc) :
                RefNamed(last.out, last.desc, i) => last.desc[i].flag \subseteq last.flags

\* name is one of the names of the text out, which " | " separates
RefHasName(out, name) == Contains(" | " \o out \o " | ", " | " \o name \o " | ")

\* the access mode the claim has print_open_flags choose: the read-write
\* value tested first, else write-only, else read-only
RefAccessMode(flags) ==
    IF O_RDWR_BITS \subseteq flags THEN "O_RDWR"
    ELSE IF O_WRONLY_BITS \subseteq flags THEN "O_WRONLY"
    ELSE "O_RDONLY"

\* C21: for every flags value print_open_flags emits exactly one of O_RDWR,
\* O_WRONLY and O_RDONLY, chosen by testing the read-write value first, else
\* write-only, else read-only, and emits it before any other flag name.
C21_OneAccessMode ==
    last.op = "print_open_flags"
        => /\ StartsWith(last.out \o " | ", RefAccessMode(last.flags) \o " | ")
           /\ \A name \in {"O_RDWR", "O_WRONLY", "O_RDONLY"} :
                RefHasName(last.out, name) <=> name = RefAccessMode(last.flags)

\* what the claim has written for the byte c: the byte itself, a backslash
\* and the character, a mnemonic, or \x and two hex digits
RefEscapeByte(c) ==
    IF c \in {34, 92} THEN "\\" \o Chr(c)
    ELSE IF c >= 32 /\ c <= 126 THEN Chr(c)
    ELSE IF c \in {10, 9, 13, 7, 8, 12, 11, 0}
         THEN "\\" \o (CASE c = 10 -> "n" [] c = 9 -> "t" [] c = 13 -> "r"
                         [] c = 7 -> "a" [] c = 8 -> "b" [] c = 12 -> "f"
                         [] c = 11 -> "v" [] c = 0 -> "0")
    ELSE "\\" \o "x" \o RefHexNat(c \div 16) \o RefHexNat(c % 16)

\* One step of reading body as the encodings of the bytes of src in order:
\* st.i bytes are read and st.pos characters matched; st.run is FALSE once
\* body is used up or does not go on with the encoding of the next byte.
RefMatchStep(st, src, body) ==
    IF st.run /\ st.pos < Len(body)
    THEN LET e == RefEscapeByte(MemByte(src, st.i))
         IN  IF /\ st.pos + Len(e) <= Len(body)
                /\ SubSeq(body, st.pos + 1, st.pos + Len(e)) = e
             THEN [i |-> st.i + 1, pos |-> st.pos + Len(e), run |-> TRUE]
             ELSE [st EXCEPT !.run = FALSE]
    ELSE [st EXCEPT !.run = FALSE]

RECURSIVE RefMatchSteps(_, _, _, _)
RefMatchSteps(st, n, src, body) ==
    IF n = 0 THEN st
    ELSE RefMatchSteps(RefMatchStep(st, src, body), n - 1, src, body)

RECURSIVE RefMatch(_, _, _)
\* the steps taken sixteen at a time, until the reading stops
RefMatch(st, src, body) ==
    IF ~st.run THEN st
    ELSE RefMatch(RefMatchSteps(st, 16, src, body), src, body)

\* body is the encodings of the first bytes of src, each of them whole, and
\* of no more bytes than the source has
RefEncodes(src, body, n) ==
    LET st == RefMatch([i |-> 0, pos |-> 0, run |-> TRUE], src, body)
    IN  st.pos = Len(body) /\ st.i <= n

\* the characters of printable ASCII
RefPrintable ==
    {SubSeq(ascii_32_95 \o ascii_97_126, i, i) : i \in 1..Len(ascii_32_95 \o ascii_97_126)}

\* the text of the output of the call made last between its two quotes
RefBody == SubSeq(last.out, 2, Len(last.out) - 1)

\* C22: every byte xprint_escape encodes is written as exactly one of: the
\* byte itself when printable and neither a quote nor a backslash; a
\* backslash and the character for those two; the two-character mnemonic for
\* newline, tab, carriage return, bell, backspace, form feed, vertical tab
\* and NUL; \x and two lower-case hex digits otherwise.  So the text between
\* the quotes (the encodings, then the ellipsis if any) is printable ASCII
\* without a raw newline or an unescaped quote.
C22_ByteEncoding ==
    (last.op = "xprint_escape" /\ last.src # W(0))
        => /\ StartsWith(last.out, "\"")
           /\ EndsWith(last.out, "\"")
           /\ Len(last.out) >= 2
           /\ \/ RefEncodes(last.src, RefBody, RefSourceLen)
              \/ /\ EndsWith(RefBody, "...")
                 /\ RefEncodes(last.src, SubSeq(RefBody, 1, Len(RefBody) - 3),
                               RefSourceLen)
           /\ \A i \in 1..Len(RefBody) : SubSeq(RefBody, i, i) \in RefPrintable

\* the bytes quote, backslash, newline, tab, 0x01 and 0xff of a counted
\* buffer were written each in its form
C22_Witness ==
    /\ last.op = "xprint_escape"
    /\ last.src = W(12288)
    /\ ~last.zero_term
    /\ last.src_size = W(6)
    /\ last.out = "\"\\\"\\\\\\n\\t\\x01\\xff\""

\* where the reading of the text between the quotes as encodings of source
\* bytes stops: st.i bytes read, st.pos characters matched (no source of
\* the model holds a dot, so the ellipsis is not read as a byte)
RefEncoded == RefMatch([i |-> 0, pos |-> 0, run |-> TRUE], last.src, RefBody)

\* what follows the encodings between the quotes
RefAfterEncoded == SubSeq(RefBody, RefEncoded.pos + 1, Len(RefBody))

\* C23: xprint_escape writes the ellipsis before the closing quote exactly
\* when the source was not used up as the encoding stopped: in the
\* zero-terminated mode when the next byte is not zero, in the counted mode
\* when the count left is above zero.  A source that ends as the reserved
\* boundary is reached gets no ellipsis; a counted buffer of length 0 is
\* rendered as two quotes.
C23_EllipsisIffNotExhausted ==
    (last.op = "xprint_escape" /\ last.src # W(0))
        => /\ RefAfterEncoded \in {"", "..."}
           /\ RefEncoded.i <= RefSourceLen
           /\ RefAfterEncoded = "..." <=> RefEncoded.i < RefSourceLen
           /\ last.zero_term
                => (RefAfterEncoded = "..." <=> MemByte(last.src, RefEncoded.i) # 0)
           /\ (~last.zero_term /\ WIsZero(last.src_size)) => last.out = "\"\""

\* a counted buffer of five bytes that ends as the boundary of a capacity of
\* eleven is reached was rendered whole, without ellipsis
C23_Witness ==
    /\ last.op = "xprint_escape"
    /\ last.src = W(4096)
    /\ ~last.zero_term
    /\ last.src_size = W(5)
    /\ last.dst_size = 11
    /\ last.out = "\"abcde\""

\* C24: intercept_setup_log called with a NULL base path changes nothing in
\* any state of the sink: it issues no close and no open, log_fd and the
\* kernel's descriptors and files stay as they were (an OPEN sink stays open
\* on the same descriptor, a CLOSED one stays CLOSED), and it returns.
C24_NullPathNoOp ==
    [][ (last'.op = "intercept_setup_log" /\ ncalls' = ncalls + 1
         /\ last'.path_base = NULL)
        => /\ last'.sys = <<>>
           /\ log_fd' = log_fd
           /\ kernel' = kernel
           /\ aborted' = aborted
           /\ last'.returned ]_vars

\* intercept_setup_log was called with a NULL path on an OPEN sink, which is
\* still open on the descriptor it had
C24_Witness ==
    /\ last.op = "intercept_setup_log"
    /\ last.path_base = NULL
    /\ last.pre_fd >= 0
    /\ log_fd = last.pre_fd
    /\ log_fd \in DOMAIN kernel.fds

\* C25: however intercept_log_syscall on one thread is interleaved with
\* intercept_log_close or intercept_setup_log on another, the write is
\* issued with the value of log_fd that was tested, and that value is
\* neither negative nor a descriptor that has been closed.
C25_WriteOnTestedOpenHandle ==
    (last.op = "intercept_log_syscall" /\ Len(last.sys) = 1)
        => /\ last.sys[1].fd = last.pre_fd
           /\ last.sys[1].fd >= 0
           /\ last.sys[1].ret # -EBADF

\* C26: for every base from 2 to 16, every 64-bit value and every width,
\* print_number stores at most 31 digits in its working buffer of 32 bytes:
\* the cursor never goes below the start of the buffer, also for a value of
\* more digits than the clamped width (large values in base 2, 3 or 4).
C26_DigitsFitBuffer ==
    last.op = "print_number"
        => /\ last.stored <= DigitsSize - 1
           /\ ~last.ub

====
